---- MODULE Spec2Model ----
(***************************************************************************)
(* scale-workshop-core: the dimensional quantity layer (quantity.ts) and   *)
(* the line evaluator (parser.ts: evaluateExpression, evaluateAST,         *)
(* parseLines).                                                            *)
(*                                                                         *)
(* Two specifications live in this module:                                 *)
(*   QSpec  a calculator over Quantity values: every Quantity method and   *)
(*          conversion is an action applied to two registers;              *)
(*   Spec   one run of parseLines: each step consumes one input line.      *)
(***************************************************************************)
EXTENDS Integers, Sequences, FiniteSets, TLC

VARIABLES
  \* ---- QSpec: the quantity calculator
  qa,        \* left operand / accumulator (a Quantity)
  qb,        \* right operand (a Quantity)
  qop,       \* name of the last operation applied
  qargs,     \* operands the last operation was applied to
  qres,      \* its result: a returned Quantity or a thrown error
  qsteps,    \* operations applied so far
  \* ---- Spec: one call of parseLines
  context,        \* the ParsingContext (Map<string, Quantity>)
  numQuantities,  \* parseLines' counter of appended degrees
  baseMidiNote,   \* parseLines' second argument
  lineNo,         \* input lines consumed so far
  status,         \* "running" | "failed" (an exception left parseLines) | "done"
  error,          \* the exception that ended the run ("" when none)
  lastLine,       \* index in LINES of the line consumed last (0: none yet)
  ctxBefore,      \* the context handed to evaluateAST for that line
  ctxAfterEval,   \* the context when evaluateAST returned or threw
  lastOutput,     \* what evaluateAST returned or threw for that line
  numBefore,      \* numQuantities when that line was evaluated
  tempered,       \* a val has rescaled the degrees (the `continue` path)
  assigned,       \* pitch node of the last pitch assignment evaluateAST
                  \* completed (NoPitch: none yet)
  \* ---- CSpec: the comma caches of fjs.ts
  formalCommas,     \* the module-level array formalCommas
  neutralCommas,    \* the module-level array neutralCommas
  formalIterator,   \* the generator commaGenerator(masterAlgorithm)
  neutralIterator,  \* the generator commaGenerator(neutralMaster)
  commaCall,        \* the last getFormalComma / getNeutralComma call
  commaLog,         \* every call made so far, in order
  commasBefore,     \* both caches and generators as the last call found them
  numCalls,         \* calls made so far
  \* ---- MSpec: one call of masterAlgorithm, a loop pass at a time
  mPrime,       \* 1-based index in PRIME_CENTS of the argument (0: no call)
  mPythagoras,  \* the local pythagoras
  mK,           \* the local k
  mStatus,      \* "idle" | "searching" | "returned"
  mResult,      \* the value returned
  \* ---- XSpec: a calculator on the pitch-space ExtendedMonzo
  xa,      \* the monzo the caller holds (the last one kept)
  xprev,   \* the monzo the caller held before
  xmade,   \* the static constructor call that built xa (NotMade: none did)
  xop,     \* name of the last method called
  xargs,   \* its receiver and arguments
  xres,    \* what it returned or threw
  xsteps,  \* calls made so far
  \* ---- DSpec: mmod on cents offsets held as doubles
  dop,     \* name of the last method called
  dargs,   \* its receiver and argument
  dres,    \* what it returned or threw
  \* ---- GSpec: the grammar on a line of tokens
  gtokens,  \* the tokens of the input line typed so far
  gparsed,  \* what parse made of them (NotParsed: not handed to parse yet)
  \* ---- WSpec: one call of wartsToVal
  wargs,   \* the arguments of the call and what the platform did (NoWarts: no call)
  wres,    \* what the call returned or threw
  \* ---- SSpec: calls on a Scale
  splatform,  \* which neighbour Math.pow answers where the power is no double
  sop,        \* name of the last method called
  sargs,      \* its receiver and arguments
  sres,       \* what it returned or threw
  \* ---- USpec: removeDuplicatesInPlace, a loop pass at a time
  uintervals,  \* this.intervals
  ui,          \* the local i
  uj,          \* the local j
  upc,         \* "idle" | "while" | "for" | "sort" | "returned"
  ucall        \* the method called and this.intervals as it found them

qvars == <<qa, qb, qop, qargs, qres, qsteps>>
pvars == <<context, numQuantities, baseMidiNote, lineNo, status, error,
           lastLine, ctxBefore, ctxAfterEval, lastOutput, numBefore,
           tempered, assigned>>
cvars == <<formalCommas, neutralCommas, formalIterator, neutralIterator,
           commaCall, commaLog, commasBefore, numCalls>>
mvars == <<mPrime, mPythagoras, mK, mStatus, mResult>>
xvars == <<xa, xprev, xmade, xop, xargs, xres, xsteps>>
dvars == <<dop, dargs, dres>>
gvars == <<gtokens, gparsed>>
wvars == <<wargs, wres>>
svars == <<splatform, sop, sargs, sres>>
uvars == <<uintervals, ui, uj, upc, ucall>>
vars == <<qvars, pvars, cvars, mvars, xvars, dvars, gvars, wvars, svars, uvars>>

\* ------------------------------------------------------------------ bounds
\* Longest input handed to parseLines.
MaxLines == 4
\* Operations applied in one run of the calculator.
MaxOps == 2
\* Largest numerator, denominator or exponent the calculator keeps.
MaxMagnitude == 4
MaxCalls == 3
MaxFifths == 8

\* --------------------------------------------------------------- Fraction
\* xen-dev-utils' Fraction (fraction.js): a sign-carrying reduced n/d.
Abs(n) == IF n < 0 THEN -n ELSE n

Max(a, b) == IF a >= b THEN a ELSE b

RECURSIVE GCD(_, _)
GCD(a, b) == IF b = 0 THEN a ELSE GCD(b, a % b)

Fraction(n, d) ==
  LET s == IF d < 0 THEN -1 ELSE 1
      g == GCD(Abs(n), Abs(d))
  IN  <<(s * n) \div g, (s * d) \div g>>

ZERO == Fraction(0, 1)
ONE == Fraction(1, 1)
NEGATIVE_ONE == Fraction(-1, 1)

FAdd(a, b) == Fraction(a[1] * b[2] + b[1] * a[2], a[2] * b[2])
FNeg(a) == <<-a[1], a[2]>>
FSub(a, b) == FAdd(a, FNeg(b))
FMul(a, b) == Fraction(a[1] * b[1], a[2] * b[2])
\* inverse() of zero is a division by zero in fraction.js: callers guard it.
FInverse(a) == Fraction(a[2], a[1])
FDiv(a, b) == FMul(a, FInverse(b))
FIsInteger(a) == a[2] = 1
FLess(a, b) == a[1] * b[2] < b[1] * a[2]
\* Math.floor of a fraction
FFloor(a) == a[1] \div a[2]
\* Math.round of a fraction (halves go up)
FRound(a) == (2 * a[1] + a[2]) \div (2 * a[2])

RECURSIVE IPow(_, _)
IPow(b, e) == IF e = 0 THEN 1 ELSE b * IPow(b, e - 1)

\* Fraction.pow with an integer exponent
FPowInt(a, e) ==
  IF e >= 0 THEN Fraction(IPow(a[1], e), IPow(a[2], e))
  ELSE Fraction(IPow(a[2], -e), IPow(a[1], -e))

\* ------------------------------------------------------------------ primes
PRIMES ==
  << 2, 3, 5, 7, 11, 13, 17, 19, 23, 29, 31, 37, 41, 43, 47, 53, 59, 61, 67,
     71, 73, 79, 83, 89, 97, 101, 103, 107, 109, 113 >>

\* Components of a monzo built without an explicit length.
NumberOfComponents == 2

RECURSIVE Multiplicity(_, _)
Multiplicity(p, n) ==
  IF n # 0 /\ n % p = 0 THEN 1 + Multiplicity(p, n \div p) ELSE 0

RECURSIVE StripPrime(_, _)
StripPrime(p, n) == IF n # 0 /\ n % p = 0 THEN StripPrime(p, n \div p) ELSE n

RECURSIVE StripPrimes(_, _)
StripPrimes(k, n) ==
  IF k = 0 THEN n ELSE StripPrimes(k - 1, StripPrime(PRIMES[k], n))

\* ---------------------------------------------------------- ExtendedMonzo
\* The frequency-space ExtendedMonzo that quantity.ts imports from ./monzo:
\* value = residual * PROD PRIMES[i]^vector[i] * 2^(cents/1200).
\* Floating-point magnitudes are not tracked: `irrational` says that the
\* cents field is a nonzero float, and every such value is kept as INEXACT.
Monzo(vector) == [vector |-> vector, residual |-> ONE, irrational |-> FALSE]

MonzoR(vector, residual) ==
  [vector |-> vector, residual |-> residual, irrational |-> FALSE]

INEXACT == [vector |-> <<>>, residual |-> ONE, irrational |-> TRUE]

UNISON == Monzo(<<>>)

VAt(v, i) == IF i <= Len(v) THEN v[i] ELSE ZERO

VecAdd(a, b) == [i \in 1..Max(Len(a), Len(b)) |-> FAdd(VAt(a, i), VAt(b, i))]

VecScale(a, f) == [i \in 1..Len(a) |-> FMul(a[i], f)]

RECURSIVE VecDot(_, _, _)
VecDot(a, b, i) ==
  IF i = 0 THEN ZERO ELSE FAdd(FMul(VAt(a, i), VAt(b, i)), VecDot(a, b, i - 1))

\* toMonzoAndResidual(fraction, numberOfComponents) of xen-dev-utils
toMonzoAndResidual(f, k) ==
  IF f[1] = 0 THEN MonzoR([i \in 1..k |-> ZERO], ZERO)
  ELSE MonzoR(
         [i \in 1..k |->
            Fraction(Multiplicity(PRIMES[i], Abs(f[1]))
                       - Multiplicity(PRIMES[i], f[2]), 1)],
         Fraction((IF f[1] < 0 THEN -1 ELSE 1) * StripPrimes(k, Abs(f[1])),
                  StripPrimes(k, f[2])))

fromFraction(f) == toMonzoAndResidual(f, NumberOfComponents)

isFractional(v) ==
  /\ ~v.irrational
  /\ \A i \in 1..Len(v.vector) : FIsInteger(v.vector[i])

RECURSIVE PrimeProduct(_, _)
PrimeProduct(vector, i) ==
  IF i = 0 THEN ONE
  ELSE FMul(FPowInt(Fraction(PRIMES[i], 1), vector[i][1]),
            PrimeProduct(vector, i - 1))

\* toFraction(): defined where isFractional holds, throws elsewhere
toFraction(v) == FMul(v.residual, PrimeProduct(v.vector, Len(v.vector)))

\* Same frequency-space number (vectors compared zero-extended)
sameValue(a, b) ==
  /\ a.irrational = b.irrational
  /\ a.residual = b.residual
  /\ \A i \in 1..Max(Len(a.vector), Len(b.vector)) :
       VAt(a.vector, i) = VAt(b.vector, i)

isUnison(v) == sameValue(v, UNISON)

\* mul(other): frequency-space multiplication
monzoMul(a, b) ==
  IF a.irrational \/ b.irrational THEN INEXACT
  ELSE MonzoR(VecAdd(a.vector, b.vector), FMul(a.residual, b.residual))

\* inverse(): frequency-space reciprocal; the reciprocal of 0 throws
inverseDefined(a) == a.irrational \/ a.residual # ZERO

monzoInverse(a) ==
  IF a.irrational THEN INEXACT
  ELSE MonzoR(VecScale(a.vector, NEGATIVE_ONE), FInverse(a.residual))

\* neg(): numeric negation
monzoNeg(a) ==
  IF a.irrational THEN INEXACT ELSE MonzoR(a.vector, FNeg(a.residual))

\* dot(other): the fraction SUM vector[i] * other.vector[i]
dot(a, b) == VecDot(a.vector, b.vector, Max(Len(a.vector), Len(b.vector)))

\* geometricInverse(): v / (v . v), so that v.dot(v.geometricInverse()) = 1
geometricInverseDefined(a) == a.irrational \/ dot(a, a) # ZERO

geometricInverse(a) ==
  IF a.irrational THEN INEXACT
  ELSE MonzoR(VecScale(a.vector, FInverse(dot(a, a))), a.residual)

\* pow(fraction)
powFractionDefined(a, f) == ~(~a.irrational /\ a.residual = ZERO /\ f[1] < 0)

powFraction(a, f) ==
  IF a.irrational THEN INEXACT
  ELSE IF a.residual = ONE THEN Monzo(VecScale(a.vector, f))
  ELSE IF FIsInteger(f)
       THEN MonzoR(VecScale(a.vector, f), FPowInt(a.residual, f[1]))
  ELSE INEXACT

\* pow(other: ExtendedMonzo): the exponent is other's numeric value
powDefined(a, b) == ~isFractional(b) \/ powFractionDefined(a, toFraction(b))

pow(a, b) == IF isFractional(b) THEN powFraction(a, toFraction(b)) ELSE INEXACT

\* add(other): numeric addition
monzoAdd(a, b) ==
  IF isFractional(a) /\ isFractional(b)
  THEN toMonzoAndResidual(FAdd(toFraction(a), toFraction(b)),
                          Max(Len(a.vector), Len(b.vector)))
  ELSE INEXACT

\* floor(log_b(a)) for fractions a > 0, b > 1
RECURSIVE FloorLog(_, _)
FloorLog(a, b) ==
  IF ~FLess(a, b) THEN 1 + FloorLog(FDiv(a, b), b)
  ELSE IF FLess(a, ONE) THEN FloorLog(FMul(a, b), b) - 1
  ELSE 0

\* reduce(other): this / other^floor(log_other(this)); by unison it throws
reduceDefined(a, b) == ~isUnison(b)

reduce(a, b) ==
  IF /\ isFractional(a) /\ isFractional(b)
     /\ FLess(ZERO, toFraction(a)) /\ FLess(ONE, toFraction(b))
  THEN monzoMul(a, powFraction(b,
         Fraction(-FloorLog(toFraction(a), toFraction(b)), 1)))
  ELSE INEXACT

\* mmod(other): floored numeric modulo; modulo zero throws
mmodDefined(a, b) == ~(isFractional(b) /\ toFraction(b) = ZERO)

mmod(a, b) ==
  IF isFractional(a) /\ isFractional(b)
  THEN LET fa == toFraction(a)
           fb == toFraction(b)
       IN  toMonzoAndResidual(
             FSub(fa, FMul(Fraction(FFloor(FDiv(fa, fb)), 1), fb)),
             Max(Len(a.vector), Len(b.vector)))
  ELSE INEXACT

\* log(other): a float
monzoLog(a, b) == INEXACT

\* fromValue(this.totalCents() / other.totalCents()); 0/0 is NaN, which the
\* ExtendedMonzo constructor refuses
centsRatioDefined(a, b) == ~(isUnison(a) /\ isUnison(b))

centsRatio(a, b) ==
  IF ~a.irrational /\ sameValue(a, b) THEN UNISON ELSE INEXACT

\* fromEqualTemperament(fractionOfEquave, equave) for an equave within PRIMES
fromEqualTemperament(fractionOfEquave, equave) ==
  Monzo(VecScale(toMonzoAndResidual(equave, NumberOfComponents).vector,
                 fractionOfEquave))

\* --------------------------------------------------------------- Quantity
\* A call either returns a Quantity or throws; q is a placeholder in the
\* latter case.
NoQuantity == [value |-> UNISON, domain |-> "scalar", exponent |-> ZERO]

Ok(q) == [ok |-> TRUE, q |-> q, err |-> ""]

Throw(e) == [ok |-> FALSE, q |-> NoQuantity, err |-> e]

\* An optional argument (baseFrequency?: Quantity) or Map.get's result
Absent == [has |-> FALSE, q |-> NoQuantity]

Present(q) == [has |-> TRUE, q |-> q]

\* const v = ...; F(v): a local is computed once and then read
With(v, F(_)) == F(v)

\* new Quantity(value, domain, exponent), with the coercion dropped
Quantity_noCoercion(value, domain, exponent) ==
  IF domain = "scalar" /\ exponent # ZERO THEN Throw("ScalarExponent")
  ELSE Ok([value |-> value, domain |-> domain, exponent |-> exponent])

\* new Quantity(value, domain, exponent)
Quantity(value, domain, exponent) ==
  LET d == IF exponent = ZERO THEN "scalar" ELSE domain
  IN  IF d = "scalar" /\ exponent # ZERO THEN Throw("ScalarExponent")
      ELSE Ok([value |-> value, domain |-> d, exponent |-> exponent])

Quantity_neg(this) ==
  IF this.domain = "pitch"
  THEN IF inverseDefined(this.value)
       THEN Quantity(monzoInverse(this.value), this.domain, this.exponent)
       ELSE Throw("DivisionByZero")
  ELSE Quantity(monzoNeg(this.value), this.domain, this.exponent)

Quantity_inverse(this) ==
  IF this.domain = "pitch"
  THEN IF geometricInverseDefined(this.value)
       THEN Quantity(geometricInverse(this.value), this.domain,
                     FNeg(this.exponent))
       ELSE Throw("DivisionByZero")
  ELSE IF inverseDefined(this.value)
       THEN Quantity(monzoInverse(this.value), this.domain,
                     FNeg(this.exponent))
       ELSE Throw("DivisionByZero")

\* add with the exponent check dropped
Quantity_add_noExponentCheck(this, other) ==
  IF other.domain # this.domain THEN Throw("DomainMismatch")
  ELSE IF this.domain = "pitch"
  THEN Quantity(monzoMul(this.value, other.value), this.domain, this.exponent)
  ELSE Quantity(monzoAdd(this.value, other.value), this.domain, this.exponent)

Quantity_add(this, other) ==
  IF other.domain # this.domain THEN Throw("DomainMismatch")
  ELSE IF other.exponent # this.exponent THEN Throw("ExponentMismatch")
  ELSE IF this.domain = "pitch"
  THEN Quantity(monzoMul(this.value, other.value), this.domain, this.exponent)
  ELSE Quantity(monzoAdd(this.value, other.value), this.domain, this.exponent)

Quantity_sub(this, other) ==
  With(Quantity_neg(other),
       LAMBDA n: IF n.ok THEN Quantity_add(this, n.q) ELSE n)

\* this.domain === 'pitch' branch of mul (lines 75-96)
Quantity_mul_pitch(this, other) ==
  IF other.exponent = ZERO
  THEN IF powDefined(this.value, other.value)
       THEN Quantity(pow(this.value, other.value), this.domain, this.exponent)
       ELSE Throw("DivisionByZero")
  ELSE IF other.domain # "pitch" THEN Throw("IncompatibleDomains")
  ELSE IF FAdd(this.exponent, other.exponent) # ZERO
  THEN Throw("DotProductExponents")
  ELSE Quantity(fromFraction(dot(this.value, other.value)), "scalar", ZERO)

\* the dot product accepted for equal exponents instead of opposite ones
Quantity_mul_sameExponent(this, other) ==
  IF this.domain = "pitch"
  THEN IF other.exponent = ZERO
       THEN Quantity_mul_pitch(this, other)
       ELSE IF other.domain # "pitch" THEN Throw("IncompatibleDomains")
       ELSE IF this.exponent # other.exponent
       THEN Throw("DotProductExponents")
       ELSE Quantity(fromFraction(dot(this.value, other.value)), "scalar", ZERO)
  ELSE IF other.domain = "pitch" THEN Quantity_mul_pitch(other, this)
  ELSE Quantity(monzoMul(this.value, other.value),
                IF this.domain = "scalar" THEN other.domain ELSE this.domain,
                FAdd(this.exponent, other.exponent))

\* the receiver's domain kept even when the receiver is a scalar
Quantity_mul_thisDomain(this, other) ==
  IF this.domain = "pitch" THEN Quantity_mul_pitch(this, other)
  ELSE IF other.domain = "pitch" THEN Quantity_mul_pitch(other, this)
  ELSE Quantity(monzoMul(this.value, other.value), this.domain,
                FAdd(this.exponent, other.exponent))

\* mul without the swap of operands for a pitch on the right
Quantity_mul_noSwap(this, other) ==
  IF this.domain = "pitch" THEN Quantity_mul_pitch(this, other)
  ELSE IF other.domain = "pitch" THEN Throw("IncompatibleDomains")
  ELSE Quantity(monzoMul(this.value, other.value),
                IF this.domain = "scalar" THEN other.domain ELSE this.domain,
                FAdd(this.exponent, other.exponent))

Quantity_mul(this, other) ==
  IF this.domain = "pitch" THEN Quantity_mul_pitch(this, other)
  ELSE IF other.domain = "pitch" THEN Quantity_mul_pitch(other, this)
  ELSE Quantity(monzoMul(this.value, other.value),
                IF this.domain = "scalar" THEN other.domain ELSE this.domain,
                FAdd(this.exponent, other.exponent))

Quantity_div(this, other) ==
  IF /\ this.domain = "pitch"
     /\ other.domain = "pitch"
     /\ this.exponent = other.exponent
  THEN IF centsRatioDefined(this.value, other.value)
       THEN Quantity(centsRatio(this.value, other.value), "scalar", ZERO)
       ELSE Throw("InvalidCents")
  ELSE With(Quantity_inverse(other),
            LAMBDA i: IF i.ok THEN Quantity_mul(this, i.q) ELSE i)

\* pow with the base's exponent left as it is
Quantity_pow_sameExponent(this, other) ==
  IF other.exponent # ZERO THEN Throw("OnlyScalarPowers")
  ELSE IF this.domain = "pitch" THEN Throw("CannotExponentiatePitch")
  ELSE IF ~powDefined(this.value, other.value) THEN Throw("DivisionByZero")
  ELSE Quantity(pow(this.value, other.value), this.domain, this.exponent)

Quantity_pow(this, other) ==
  IF other.exponent # ZERO THEN Throw("OnlyScalarPowers")
  ELSE IF this.domain = "pitch" THEN Throw("CannotExponentiatePitch")
  ELSE IF ~powDefined(this.value, other.value) THEN Throw("DivisionByZero")
  ELSE IF this.exponent = ZERO
  THEN Quantity(pow(this.value, other.value), this.domain, this.exponent)
  ELSE IF ~isFractional(other.value) THEN Throw("Irrational")
  ELSE Quantity(pow(this.value, other.value), this.domain,
                FMul(this.exponent, toFraction(other.value)))

Quantity_log(this, other) ==
  IF this.exponent # ZERO \/ other.exponent # ZERO
  THEN Throw("OnlyScalarPowers")
  ELSE Quantity(monzoLog(this.value, other.value), this.domain, this.exponent)

Quantity_mod(this, other) ==
  IF other.domain # this.domain THEN Throw("DomainMismatch")
  ELSE IF other.exponent # this.exponent THEN Throw("ExponentMismatch")
  ELSE IF this.domain = "pitch"
  THEN IF reduceDefined(this.value, other.value)
       THEN Quantity(reduce(this.value, other.value), this.domain,
                     this.exponent)
       ELSE Throw("ModuloByUnison")
  ELSE IF mmodDefined(this.value, other.value)
       THEN Quantity(mmod(this.value, other.value), this.domain, this.exponent)
       ELSE Throw("ModuloByZero")

Quantity_reduce(this, other) ==
  IF this.domain # "scalar" \/ other.domain # "scalar"
  THEN Throw("OnlyScalarsReduce")
  ELSE IF reduceDefined(this.value, other.value)
  THEN Quantity(reduce(this.value, other.value), this.domain, this.exponent)
  ELSE Throw("ModuloByUnison")

normalizeFrequency(quantity) ==
  IF quantity.domain # "time" THEN Throw("NotTimeDomain")
  ELSE With(FNeg(FInverse(quantity.exponent)),
            LAMBDA e:
              IF powFractionDefined(quantity.value, e)
              THEN Quantity(powFraction(quantity.value, e), "time",
                            NEGATIVE_ONE)
              ELSE Throw("DivisionByZero"))

\* ratio(quantity, baseFrequency?)
ratio(quantity, baseFrequency) ==
  IF quantity.domain = "pitch" THEN Quantity(quantity.value, "scalar", ZERO)
  ELSE IF quantity.exponent = ZERO THEN Ok(quantity)
  ELSE IF ~baseFrequency.has THEN Throw("BaseFrequencyRequired")
  ELSE With(normalizeFrequency(quantity),
            LAMBDA n:
              IF ~n.ok THEN n
              ELSE With(normalizeFrequency(baseFrequency.q),
                        LAMBDA b: IF ~b.ok THEN b
                                  ELSE Quantity_div(n.q, b.q)))

\* frequency(quantity, baseFrequency?)
frequency(quantity, baseFrequency) ==
  IF quantity.domain = "time" THEN normalizeFrequency(quantity)
  ELSE IF ~baseFrequency.has THEN Throw("BaseFrequencyRequired")
  ELSE With(normalizeFrequency(baseFrequency.q),
            LAMBDA b:
              IF ~b.ok THEN b
              ELSE With(ratio(quantity, Absent),
                        LAMBDA r: IF ~r.ok THEN r
                                  ELSE Quantity_mul(b.q, r.q)))

\* pitch(quantity, baseFrequency?)
RECURSIVE pitch(_, _)
pitch(quantity, baseFrequency) ==
  IF quantity.domain = "pitch" THEN Ok(quantity)
  ELSE IF quantity.exponent = ZERO THEN Quantity(quantity.value, "pitch", ONE)
  ELSE With(ratio(quantity, baseFrequency),
            LAMBDA r: IF r.ok THEN pitch(r.q, Absent) ELSE r)

mtof(index) ==
  IF index.domain # "scalar" THEN Throw("NotScalar")
  ELSE Quantity(INEXACT, "time", NEGATIVE_ONE)

ftom(freq, baseFrequency) ==
  With(frequency(freq, baseFrequency),
       LAMBDA f: IF f.ok THEN Quantity(INEXACT, "scalar", ZERO) ELSE f)

nmtof(wavelength) ==
  IF wavelength.domain # "scalar" THEN Throw("NotScalar")
  ELSE Quantity(INEXACT, "time", NEGATIVE_ONE)

HALF == Quantity(fromFraction(Fraction(1, 2)), "scalar", ZERO).q
THIRD == Quantity(fromFraction(Fraction(1, 3)), "scalar", ZERO).q

sqrt(quantity) == Quantity_pow(quantity, HALF)

cbrt(quantity) == Quantity_pow(quantity, THIRD)

\* ------------------------------------------------------------ pythagorean
\* PYTH_VECTORS, in halves: exponents of 2 and 3 for spans 0..6
PYTH_VECTORS ==
  << <<Fraction(0, 1), Fraction(0, 1)>>,
     <<Fraction(5, 2), Fraction(-3, 2)>>,
     <<Fraction(-1, 2), Fraction(1, 2)>>,
     <<Fraction(2, 1), Fraction(-1, 1)>>,
     <<Fraction(-1, 1), Fraction(1, 1)>>,
     <<Fraction(3, 2), Fraction(-1, 2)>>,
     <<Fraction(-3, 2), Fraction(3, 2)>> >>

\* fromParts(quality, degree) for the qualities P, n, M and m and whole
\* degrees >= 1
fromParts(quality, degree) ==
  LET span == Abs(degree) - 1
      base == PYTH_VECTORS[(span % 7) + 1]
      two == FAdd(base[1], Fraction(span \div 7, 1))
      three == base[2]
  IN  IF quality = "M"
      THEN Monzo(<<FSub(two, Fraction(11, 2)), FAdd(three, Fraction(7, 2))>>)
      ELSE IF quality = "m"
      THEN Monzo(<<FAdd(two, Fraction(11, 2)), FSub(three, Fraction(7, 2))>>)
      ELSE Monzo(<<two, three>>)

\* NOMINAL_VECTORS.get(nominal)
NominalVector(nominal) ==
  CASE nominal = "F" -> <<2, -1>>
    [] nominal = "C" -> <<0, 0>>
    [] nominal = "G" -> <<-1, 1>>
    [] nominal = "D" -> <<-3, 2>>
    [] nominal = "A" -> <<-4, 3>>
    [] nominal = "a" -> <<-4, 3>>
    [] nominal = "E" -> <<-6, 4>>
    [] nominal = "B" -> <<-7, 5>>

\* ACCIDENTAL_VECTORS.get(accidental) for the natural, sharp and flat signs
AccidentalVector(accidental) ==
  CASE accidental = "=" -> <<0, 0>>
    [] accidental = "#" -> <<-11, 7>>
    [] accidental = "b" -> <<11, -7>>

RECURSIVE AccidentalSum(_, _)
AccidentalSum(accidentals, c) ==
  IF accidentals = <<>> THEN 0
  ELSE AccidentalVector(Head(accidentals))[c]
         + AccidentalSum(Tail(accidentals), c)

\* absoluteFromParts(nominal, accidentals, octave)
absoluteFromParts(nominal, accidentals, octave) ==
  Monzo(<<Fraction(NominalVector(nominal)[1] + AccidentalSum(accidentals, 1)
                     + octave - 4, 1),
          Fraction(NominalVector(nominal)[2] + AccidentalSum(accidentals, 2),
                   1)>>)

\* toJustIntonation / absoluteToJustIntonation without comma super- or
\* subscripts: both loops over the commas are empty
toJustIntonation(quality, degree) == fromParts(quality, degree)

absoluteToJustIntonation(nominal, accidentals, octave) ==
  absoluteFromParts(nominal, accidentals, octave)

\* ------------------------------------------------------------------ fjs.ts
\* Cents are fixed-point numbers: one unit is 1/10000 cent, so an octave is
\* 12000000 units. PRIME_CENTS is xen-dev-utils' table 1200 * log2(p), here
\* for the primes 2 .. 113.
PRIME_CENTS ==
  << 12000000, 19019550, 27863137, 33688259, 41513179, 44405277,
     49049554, 50975130, 54282743, 58295772, 59450356, 62513440,
     64290624, 65115177, 66655066, 68735045, 70591717, 71168848,
     72793070, 73796965, 74277895, 75645369, 76500473, 77708801,
     79198954, 79898538, 80238006, 80897604, 81218212, 81842148 >>

\* valueToCents(65 / 63)
RADIUS_OF_TOLERANCE == 541055

\* 13.5 * PRIME_CENTS[0] - 8.5 * PRIME_CENTS[1]
NFJS_RADIUS == (27 * PRIME_CENTS[1] - 17 * PRIME_CENTS[2]) \div 2

FIFTH == PRIME_CENTS[2] - PRIME_CENTS[1]

\* distance(a, b): Math.abs(mmod(a - b + 600, 1200) - 600)
distance_unfolded(a, b) == Abs(a - b)

distance(a, b) == Abs(((a - b + 6000000) % 12000000) - 6000000)

\* One pass of the body of masterAlgorithm's while (true)
masterStep(primeCents, pythagoras, k) ==
  IF distance(primeCents, pythagoras + FIFTH) < RADIUS_OF_TOLERANCE
  THEN [done |-> TRUE, k |-> k + 1, pythagoras |-> pythagoras + FIFTH]
  ELSE IF distance(primeCents, -(pythagoras + FIFTH)) < RADIUS_OF_TOLERANCE
  THEN [done |-> TRUE, k |-> -(k + 1), pythagoras |-> pythagoras + FIFTH]
  ELSE [done |-> FALSE, k |-> k + 1, pythagoras |-> pythagoras + FIFTH]

RECURSIVE masterLoop(_, _, _)
masterLoop(primeCents, pythagoras, k) ==
  With(masterStep(primeCents, pythagoras, k),
       LAMBDA s: IF s.done THEN s.k
                 ELSE masterLoop(primeCents, s.pythagoras, s.k))

\* masterAlgorithm(primeCents): the signed count of fifths
masterAlgorithm(primeCents) ==
  IF distance(primeCents, 0) < RADIUS_OF_TOLERANCE THEN 0
  ELSE masterLoop(primeCents, 0, 0)

\* What a master function answers: a count of fifths (a Fraction, halves
\* for neutralMaster) or the exception it throws
Found(k) == [ok |-> TRUE, k |-> k, err |-> ""]

NotFound(e) == [ok |-> FALSE, k |-> ZERO, err |-> e]

\* neutralMaster, second for loop: half-integer counts of fifths
RECURSIVE neutralHalf(_, _, _)
neutralHalf(primeCents, pythagoras, k) ==
  IF k > 6 THEN NotFound("NoNFJSRegion")
  ELSE IF distance(primeCents, pythagoras) < NFJS_RADIUS
  THEN Found(Fraction(2 * k - 1, 2))
  ELSE IF distance(primeCents, -pythagoras) < NFJS_RADIUS
  THEN Found(Fraction(1 - 2 * k, 2))
  ELSE neutralHalf(primeCents, pythagoras + FIFTH, k + 1)

\* neutralMaster, first for loop
RECURSIVE neutralWhole(_, _, _)
neutralWhole(primeCents, pythagoras, k) ==
  IF k > 6 THEN neutralHalf(primeCents, FIFTH \div 2, 1)
  ELSE IF distance(primeCents, pythagoras + FIFTH) < NFJS_RADIUS
  THEN Found(Fraction(k, 1))
  ELSE IF distance(primeCents, -(pythagoras + FIFTH)) < NFJS_RADIUS
  THEN Found(Fraction(-k, 1))
  ELSE neutralWhole(primeCents, pythagoras + FIFTH, k + 1)

neutralMaster(primeCents) ==
  IF distance(primeCents, 0) < NFJS_RADIUS THEN Found(ZERO)
  ELSE neutralWhole(primeCents, 0, 1)

\* the master function a generator was created with
master(which, primeCents) ==
  IF which = "formal" THEN Found(Fraction(masterAlgorithm(primeCents), 1))
  ELSE neutralMaster(primeCents)

\* twice a Fraction whose denominator is 1 or 2
Twice(f) == (2 * f[1]) \div f[2]

\* The two while loops of commaGenerator on doubled values: twos moves by
\* whole octaves until the comma lies within 600 cents of unison
RECURSIVE octaveReduce(_, _)
octaveReduce(twos2, commaCents2) ==
  IF commaCents2 > 12000000
  THEN octaveReduce(twos2 - 2, commaCents2 - 2 * PRIME_CENTS[1])
  ELSE IF commaCents2 < -12000000
  THEN octaveReduce(twos2 + 2, commaCents2 + 2 * PRIME_CENTS[1])
  ELSE twos2

\* the comma with the two while loops left out: twos stays at threes
comma_unreduced(i, k) ==
  Monzo([j \in 1..(i + 1) |->
           IF j = 1 \/ j = 2 THEN Fraction(-Twice(k), 2)
           ELSE IF j = i + 1 THEN ONE
           ELSE ZERO])

\* The comma commaGenerator yields for the prime of (0-based) index i, given
\* the count of fifths k its master function answered
comma(i, k) ==
  LET threes2 == -Twice(k)
      twos2 == octaveReduce(threes2,
                            2 * PRIME_CENTS[i + 1] + threes2 * PRIME_CENTS[1]
                              + threes2 * PRIME_CENTS[2])
  IN  Monzo([j \in 1..(i + 1) |->
               IF j = 1 THEN Fraction(twos2, 2)
               ELSE IF j = 2 THEN Fraction(threes2, 2)
               ELSE IF j = i + 1 THEN ONE
               ELSE ZERO])

\* A generator object: the index i it reaches next, and whether it has
\* finished (ran off the table, or threw)
NewIterator == [i |-> 2, closed |-> FALSE]

\* What getFormalComma / getNeutralComma leave behind
CommaResult(ok, err, value, commas, iterator) ==
  [ok |-> ok, err |-> err, value |-> value, commas |-> commas,
   iterator |-> iterator]

\* The while (index >= cache.length) loop of getFormalComma /
\* getNeutralComma: pull commas from the generator until the cache is long
\* enough
RECURSIVE extendCommas(_, _, _, _)
extendCommas(which, index, commas, iterator) ==
  IF ~(index >= Len(commas))
  THEN CommaResult(TRUE, "", UNISON, commas, iterator)
  ELSE IF iterator.closed \/ ~(iterator.i < Len(PRIME_CENTS))
  THEN CommaResult(FALSE, "OutOfPrimes", UNISON, commas,
                   [iterator EXCEPT !.closed = TRUE])
  ELSE With(master(which, PRIME_CENTS[iterator.i + 1]),
            LAMBDA m:
              IF ~m.ok
              THEN CommaResult(FALSE, m.err, UNISON, commas,
                               [iterator EXCEPT !.closed = TRUE])
              ELSE extendCommas(which, index,
                                Append(commas, comma(iterator.i, m.k)),
                                [iterator EXCEPT !.i = iterator.i + 1]))

\* getComma with a cache that is cleared back to its two initial entries
\* on a miss
getComma_cleared(which, index, commas, iterator) ==
  With(extendCommas(which, index,
                    IF index >= Len(commas) THEN SubSeq(commas, 1, 2)
                    ELSE commas,
                    iterator),
       LAMBDA r: IF r.ok
                 THEN CommaResult(TRUE, "", r.commas[index + 1], r.commas,
                                  r.iterator)
                 ELSE r)

\* getFormalComma(index) / getNeutralComma(index) on a cache and its
\* generator
getComma(which, index, commas, iterator) ==
  With(extendCommas(which, index, commas, iterator),
       LAMBDA r: IF r.ok
                 THEN CommaResult(TRUE, "", r.commas[index + 1], r.commas,
                                  r.iterator)
                 ELSE r)

\* ------------------------------------------- pitch-space ExtendedMonzo
\* The class ExtendedMonzo of fjs.ts lines 231-783: a fractional monzo, a
\* multiplicative residual and a cents offset, one value measured in
\* pitch-space: size = cents + valueToCents(residual) +
\* SUM vector[i] * PRIME_CENTS[i].
\*
\* The cents offset is a JavaScript number. A finite one is kept as an exact
\* Fraction of fixed-point units (1/10000 cent); the non-finite ones are
\* kept apart, with the IEEE 754 rules for them.
Finite(q) == [kind |-> "finite", q |-> q]

Infinity == [kind |-> "infinite", q |-> ONE]

NegativeInfinity == [kind |-> "infinite", q |-> NEGATIVE_ONE]

NaN == [kind |-> "nan", q |-> ZERO]

Sign(n) == IF n < 0 THEN -1 ELSE IF n > 0 THEN 1 ELSE 0

\* -a
numNeg(a) == [a EXCEPT !.q = FNeg(a.q)]

\* a + b
numAdd(a, b) ==
  IF a.kind = "nan" \/ b.kind = "nan" THEN NaN
  ELSE IF a.kind = "infinite" /\ b.kind = "infinite"
  THEN IF a.q = b.q THEN a ELSE NaN
  ELSE IF a.kind = "infinite" THEN a
  ELSE IF b.kind = "infinite" THEN b
  ELSE Finite(FAdd(a.q, b.q))

\* a - b
numSub(a, b) == numAdd(a, numNeg(b))

\* a * b
numMul(a, b) ==
  IF a.kind = "nan" \/ b.kind = "nan" THEN NaN
  ELSE IF a.kind = "infinite" \/ b.kind = "infinite"
  THEN IF a.q = ZERO \/ b.q = ZERO THEN NaN
       ELSE [kind |-> "infinite",
             q |-> Fraction(Sign(a.q[1]) * Sign(b.q[1]), 1)]
  ELSE Finite(FMul(a.q, b.q))

\* a / b (the sign of a zero is not tracked: a zero divisor counts as +0)
numDiv(a, b) ==
  IF a.kind = "nan" \/ b.kind = "nan" THEN NaN
  ELSE IF a.kind = "infinite"
  THEN IF b.kind = "infinite" THEN NaN
       ELSE [kind |-> "infinite",
             q |-> Fraction(Sign(a.q[1]) * (IF b.q[1] < 0 THEN -1 ELSE 1), 1)]
  ELSE IF b.kind = "infinite" THEN Finite(ZERO)
  ELSE IF b.q = ZERO
  THEN IF a.q = ZERO THEN NaN
       ELSE [kind |-> "infinite", q |-> Fraction(Sign(a.q[1]), 1)]
  ELSE Finite(FDiv(a.q, b.q))

\* Math.floor(a)
numFloor(a) == IF a.kind = "finite" THEN Finite(Fraction(FFloor(a.q), 1)) ELSE a

\* valueToCents of a positive integer whose prime factors are in PRIMES
RECURSIVE integerToCents(_, _)
integerToCents(n, i) ==
  IF i = 0 THEN 0
  ELSE Multiplicity(PRIMES[i], n) * PRIME_CENTS[i] + integerToCents(n, i - 1)

\* the index of the largest prime of PRIMES dividing n (0: none)
RECURSIVE primeLimitIndex(_, _)
primeLimitIndex(n, i) ==
  IF i = 0 THEN 0
  ELSE IF n % PRIMES[i] = 0 THEN i
  ELSE primeLimitIndex(n, i - 1)

\* valueToCents(fraction.valueOf()): 1200 * Math.log2 of it
valueToCents(f) ==
  IF f[1] = 0 THEN NegativeInfinity
  ELSE IF f[1] < 0 THEN NaN
  ELSE Finite(Fraction(integerToCents(f[1], primeLimitIndex(f[1], Len(PRIMES)))
                         - integerToCents(f[2],
                                          primeLimitIndex(f[2], Len(PRIMES))),
                       1))

\* n^(p/q) for a positive integer n with prime factors in PRIMES[1..i]:
\* the root where every prime's multiplicity times p is a multiple of q,
\* -1 (fraction.js answers null) elsewhere
RECURSIVE rootPow(_, _, _, _)
rootPow(n, p, q, i) ==
  IF i = 0 THEN 1
  ELSE IF (Multiplicity(PRIMES[i], n) * p) % q # 0 THEN -1
  ELSE With(rootPow(n, p, q, i - 1),
            LAMBDA r:
              IF r < 0 THEN -1
              ELSE r * IPow(PRIMES[i],
                            (Multiplicity(PRIMES[i], n) * p) \div q))

\* What Fraction.pow answers: a Fraction, null, or a thrown division by zero
PowOk(f) == [ok |-> TRUE, isNull |-> FALSE, f |-> f]

PowNull == [ok |-> TRUE, isNull |-> TRUE, f |-> ONE]

PowThrow == [ok |-> FALSE, isNull |-> FALSE, f |-> ONE]

\* fraction.js Fraction.pow(m) for a Fraction m
FractionPow(a, m) ==
  IF m[2] = 1
  THEN IF a[1] = 0 /\ m[1] < 0 THEN PowThrow ELSE PowOk(FPowInt(a, m[1]))
  ELSE IF a[1] < 0 THEN PowNull
  ELSE IF a[1] = 0 THEN (IF m[1] < 0 THEN PowThrow ELSE PowOk(ZERO))
  ELSE With(<<rootPow(a[1], Abs(m[1]), m[2],
                      primeLimitIndex(a[1], Len(PRIMES))),
              rootPow(a[2], Abs(m[1]), m[2],
                      primeLimitIndex(a[2], Len(PRIMES)))>>,
            LAMBDA r:
              IF r[1] < 0 \/ r[2] < 0 THEN PowNull
              ELSE IF m[1] < 0 THEN PowOk(Fraction(r[2], r[1]))
              ELSE PowOk(Fraction(r[1], r[2])))

\* What a method of ExtendedMonzo answers: the monzo m, or the exception
NoMonzo == [vector |-> <<>>, residual |-> ONE, cents |-> Finite(ZERO)]

MOk(m) == [ok |-> TRUE, err |-> "", m |-> m]

MThrow(e) == [ok |-> FALSE, err |-> e, m |-> NoMonzo]

\* constructor(vector, residual, cents)
ExtendedMonzo(vector, residual, cents) ==
  IF cents.kind = "nan" THEN MThrow("Invalid cents value")
  ELSE MOk([vector |-> vector, residual |-> residual, cents |-> cents])

\* fromFraction that factors the numerator only
ExtendedMonzo_fromFraction_numerator(fraction, numberOfComponents) ==
  With(toMonzoAndResidual(Fraction(fraction[1], 1), numberOfComponents),
       LAMBDA t: ExtendedMonzo(t.vector, t.residual, Finite(ZERO)))

\* static fromFraction(fraction, numberOfComponents)
ExtendedMonzo_fromFraction(fraction, numberOfComponents) ==
  With(toMonzoAndResidual(fraction, numberOfComponents),
       LAMBDA t: ExtendedMonzo(t.vector, t.residual, Finite(ZERO)))

\* static fromCents(cents, numberOfComponents)
ExtendedMonzo_fromCents(cents, numberOfComponents) ==
  ExtendedMonzo([i \in 1..numberOfComponents |-> ZERO], ONE, cents)

\* primeLimit(equave) as an index: PRIMES.indexOf(primeLimit(equave)) + 1
primeLimitComponents(equave) ==
  Max(primeLimitIndex(Abs(equave[1]), Len(PRIMES)),
      primeLimitIndex(equave[2], Len(PRIMES)))

\* static fromEqualTemperament(fractionOfEquave, equave), the number of
\* components left undefined
ExtendedMonzo_fromEqualTemperament(fractionOfEquave, equave) ==
  With(toMonzoAndResidual(equave, IF equave[1] = 0 THEN 0
                                  ELSE primeLimitComponents(equave)),
       LAMBDA t:
         IF t.residual # ONE THEN MThrow("Unable to convert equave to monzo")
         ELSE ExtendedMonzo(VecScale(t.vector, fractionOfEquave), ONE,
                            Finite(ZERO)))

\* toFraction(): the exception, or the Fraction in field f
FOk(f) == [ok |-> TRUE, err |-> "", f |-> f]

FThrow(e) == [ok |-> FALSE, err |-> e, f |-> ZERO]

\* the forEach of toFraction over components 1..i
RECURSIVE toFractionLoop(_, _)
toFractionLoop(x, i) ==
  IF i = 0 THEN FOk(x.residual)
  ELSE With(toFractionLoop(x, i - 1),
            LAMBDA r:
              IF ~r.ok THEN r
              ELSE With(FractionPow(Fraction(PRIMES[i], 1), x.vector[i]),
                        LAMBDA factor:
                          IF factor.isNull
                          THEN FThrow("Unable to convert irrational number to fraction")
                          ELSE FOk(FMul(r.f, factor.f))))

ExtendedMonzo_toFraction(x) ==
  IF x.cents # Finite(ZERO)
  THEN FThrow("Unable to convert irrational number to fraction")
  ELSE toFractionLoop(x, Len(x.vector))

\* neg() that leaves the residual as it is
ExtendedMonzo_neg_sameResidual(x) ==
  ExtendedMonzo([i \in 1..Len(x.vector) |-> FNeg(x.vector[i])],
                x.residual, numNeg(x.cents))

\* neg()
ExtendedMonzo_neg(x) ==
  IF x.residual = ZERO THEN MThrow("Division by Zero")
  ELSE ExtendedMonzo([i \in 1..Len(x.vector) |-> FNeg(x.vector[i])],
                     FInverse(x.residual), numNeg(x.cents))

\* add(other) where this.vector is at least as long as other.vector
addLonger(this, other) ==
  ExtendedMonzo([i \in 1..Len(this.vector) |->
                   IF i <= Len(other.vector)
                   THEN FAdd(this.vector[i], other.vector[i])
                   ELSE this.vector[i]],
                FMul(this.residual, other.residual),
                numAdd(this.cents, other.cents))

\* add(other) with the result cut to the shorter vector
ExtendedMonzo_add_truncating(this, other) ==
  ExtendedMonzo([i \in 1..(IF Len(this.vector) < Len(other.vector)
                           THEN Len(this.vector) ELSE Len(other.vector)) |->
                   FAdd(this.vector[i], other.vector[i])],
                FMul(this.residual, other.residual),
                numAdd(this.cents, other.cents))

\* add(other)
ExtendedMonzo_add(this, other) ==
  IF Len(this.vector) < Len(other.vector) THEN addLonger(other, this)
  ELSE addLonger(this, other)

\* sub(other)
ExtendedMonzo_sub(this, other) ==
  IF other.residual = ZERO THEN MThrow("Division by Zero")
  ELSE ExtendedMonzo(
         IF Len(this.vector) <= Len(other.vector)
         THEN [i \in 1..Len(other.vector) |->
                 IF i <= Len(this.vector)
                 THEN FSub(this.vector[i], other.vector[i])
                 ELSE FNeg(other.vector[i])]
         ELSE [i \in 1..Len(this.vector) |->
                 IF i <= Len(other.vector)
                 THEN FSub(this.vector[i], other.vector[i])
                 ELSE this.vector[i]],
         FDiv(this.residual, other.residual),
         numSub(this.cents, other.cents))

\* The tail of mul and div: residual is this.residual.pow(exponent), and
\* cents is scaled by scale
mulTail(this, vector, residual, scale) ==
  IF ~residual.ok THEN MThrow("Division by Zero")
  ELSE IF residual.isNull
  THEN ExtendedMonzo(vector, ONE,
                     numMul(numAdd(this.cents, valueToCents(this.residual)),
                            scale))
  ELSE ExtendedMonzo(vector, residual.f, numMul(this.cents, scale))

\* mul(scalar) for a Fraction scalar
ExtendedMonzo_mul(this, scalar) ==
  mulTail(this, VecScale(this.vector, scalar),
          FractionPow(this.residual, scalar), Finite(scalar))

\* mul(scalar) for a number: a number that is no integer of the model is
\* NaN or infinite, and new Fraction(scalar) of it makes the scaled cents
\* NaN
ExtendedMonzo_mul_number(this, scalar) ==
  IF scalar.kind # "finite" THEN MThrow("Invalid cents value")
  ELSE ExtendedMonzo_mul(this, scalar.q)

\* div(scalar) for a Fraction scalar other than zero
ExtendedMonzo_div(this, scalar) ==
  mulTail(this, VecScale(this.vector, FInverse(scalar)),
          FractionPow(this.residual, FInverse(scalar)),
          Finite(FInverse(scalar)))

\* totalCents()
RECURSIVE totalCentsLoop(_, _)
totalCentsLoop(x, i) ==
  IF i = 0 THEN numAdd(x.cents, valueToCents(x.residual))
  ELSE numAdd(totalCentsLoop(x, i - 1),
              Finite(FMul(x.vector[i], Fraction(PRIME_CENTS[i], 1))))

ExtendedMonzo_totalCents(x) == totalCentsLoop(x, Len(x.vector))

\* mmod(other)
ExtendedMonzo_mmod(this, other) ==
  IF ExtendedMonzo_totalCents(other) = Finite(ZERO)
  THEN MThrow("Modulo by unison")
  ELSE With(ExtendedMonzo_mul_number(
              other,
              numFloor(numDiv(ExtendedMonzo_totalCents(this),
                              ExtendedMonzo_totalCents(other)))),
            LAMBDA m: IF ~m.ok THEN m ELSE ExtendedMonzo_sub(this, m.m))

\* lcm of xen-dev-utils
LCM(a, b) == IF a = 0 \/ b = 0 THEN 0 ELSE (a * b) \div GCD(a, b)

\* toEqualTemperament(): the exception, or the pair
\* [fractionOfEquave, equave]
EOk(fractionOfEquave, equave) ==
  [ok |-> TRUE, err |-> "", fractionOfEquave |-> fractionOfEquave,
   equave |-> equave]

EThrow(e) == [ok |-> FALSE, err |-> e, fractionOfEquave |-> ZERO,
              equave |-> ONE]

\* the first forEach of toEqualTemperament: lcm of the denominators
RECURSIVE denominatorLoop(_, _)
denominatorLoop(vector, i) ==
  IF i = 0 THEN 1 ELSE LCM(denominatorLoop(vector, i - 1), vector[i][2])

\* the second forEach: gcd of the numerators of the scaled components
RECURSIVE numeratorLoop(_, _, _)
numeratorLoop(vector, denominator, i) ==
  IF i = 0 THEN 0
  ELSE GCD(numeratorLoop(vector, denominator, i - 1),
           Abs(FMul(vector[i], Fraction(denominator, 1))[1]))

\* the tail of toEqualTemperament, from `const equave` on
equaveOf(x, fractionOfEquave) ==
  With(ExtendedMonzo_div(x, fractionOfEquave),
       LAMBDA d:
         IF ~d.ok THEN EThrow(d.err)
         ELSE With(ExtendedMonzo_toFraction(d.m),
                   LAMBDA equave:
                     IF ~equave.ok THEN EThrow(equave.err)
                     ELSE IF FLess(equave.f, ONE)
                     THEN EOk(FNeg(fractionOfEquave), FInverse(equave.f))
                     ELSE EOk(fractionOfEquave, equave.f)))

\* toEqualTemperament() answering the equave it was built from
ExtendedMonzo_toEqualTemperament_unreduced(x) ==
  IF x.cents # Finite(ZERO) \/ x.residual # ONE \/ Len(x.vector) = 0
  THEN EThrow("Unable to convert to equal temperament")
  ELSE EOk(x.vector[1], Fraction(2, 1))

\* toEqualTemperament()
ExtendedMonzo_toEqualTemperament(x) ==
  IF x.cents # Finite(ZERO)
  THEN EThrow("Unable to convert non-algebraic number to equal temperament")
  ELSE IF x.residual # ONE
  THEN EThrow("Unable to convert non-representable fraction to equal temperament")
  ELSE IF Len(x.vector) = 0 THEN EOk(ZERO, ONE)
  ELSE With(Fraction(numeratorLoop(x.vector,
                                   denominatorLoop(x.vector, Len(x.vector)),
                                   Len(x.vector)),
                     denominatorLoop(x.vector, Len(x.vector))),
            LAMBDA fractionOfEquave:
              IF fractionOfEquave = ZERO THEN EOk(ZERO, ONE)
              ELSE equaveOf(x, fractionOfEquave))

\* Interval.mmod(other), as far as the monzos of the two intervals go:
\* Interval.mul is monzo.mul, Interval.sub is add(other.neg()), and
\* Interval.neg and Interval.add are monzo.neg and monzo.add
Interval_mmod(this, other) ==
  IF ExtendedMonzo_totalCents(other) = Finite(ZERO)
  THEN MThrow("Modulo by unison")
  ELSE With(ExtendedMonzo_mul_number(
              other,
              numFloor(numDiv(ExtendedMonzo_totalCents(this),
                              ExtendedMonzo_totalCents(other)))),
            LAMBDA m:
              IF ~m.ok THEN m
              ELSE With(ExtendedMonzo_neg(m.m),
                        LAMBDA n: IF ~n.ok THEN n
                                  ELSE ExtendedMonzo_add(this, n.m)))

\* ----------------------------------------------------------------- parser
\* Number.prototype.toString for the indices a run can reach
toString(i) ==
  CASE i = 0 -> "0" [] i = 1 -> "1" [] i = 2 -> "2" [] i = 3 -> "3"
    [] i = 4 -> "4" [] i = 5 -> "5" [] i = 6 -> "6" [] i = 7 -> "7"
    [] i = 8 -> "8" [] i = 9 -> "9"
    [] i = -1 -> "-1" [] i = -2 -> "-2" [] i = -3 -> "-3"

\* name.startsWith('-')
startsWithMinus(name) == name \in {"-0", "-1", "-2", "-3"}

\* parseInt(name, 10) of such a name
parseInt(name) ==
  CASE name = "-0" -> 0 [] name = "-1" -> -1 [] name = "-2" -> -2
    [] name = "-3" -> -3

\* new Map()
EmptyContext == [k \in {} |-> NoQuantity]

\* Map.prototype.set / get
Set(ctx, key, q) ==
  [k \in DOMAIN ctx \cup {key} |-> IF k = key THEN q ELSE ctx[k]]

Get(ctx, key) == IF key \in DOMAIN ctx THEN Present(ctx[key]) ELSE Absent

\* context.set(key, undefined): get(key) answers undefined afterwards
Unset(ctx, key) == [k \in DOMAIN ctx \ {key} |-> ctx[k]]

\* getSize(context): Math.round(context.get('#')!.value.valueOf()); a
\* missing '#' is a TypeError
getSizeDefined(ctx) == "#" \in DOMAIN ctx /\ isFractional(ctx["#"].value)

getSize(ctx) == FRound(toFraction(ctx["#"].value))

\* int(n)
int(n) == Quantity(fromFraction(Fraction(n, 1)), "scalar", ZERO).q

\* The operator switch of a BinaryExpression
applyBinary(operator, left, right) ==
  CASE operator = "+" -> Quantity_add(left, right)
    [] operator = "-" -> Quantity_sub(left, right)
    [] operator \in {"*", "x"} -> Quantity_mul(left, right)
    [] operator \in {"%", "/"} -> Quantity_div(left, right)
    [] operator = "^" -> Quantity_pow(left, right)
    [] operator = "mod" -> Quantity_mod(left, right)
    [] operator = "reduce" -> Quantity_reduce(left, right)
    [] operator = "log" -> Quantity_log(left, right)
    [] OTHER -> Throw("UnrecognizedOperator")

\* The operator switch of a UnaryExpression
applyUnary(operator, operand) ==
  CASE operator = "+" -> Ok(operand)
    [] operator = "-" -> Quantity_neg(operand)
    [] operator \in {"%", "/"} -> Quantity_inverse(operand)
    [] OTHER -> Throw("UnrecognizedOperator")

\* The name switch of a Function node
applyFunction(name, value, ctx) ==
  CASE name = "pitch" -> pitch(value, Get(ctx, "0"))
    [] name = "ratio" -> ratio(value, Get(ctx, "0"))
    [] name = "frequency" -> frequency(value, Get(ctx, "0"))
    [] name = "mtof" -> mtof(value)
    [] name = "ftom" -> ftom(value, Get(ctx, "0"))
    [] name = "nmtof" -> nmtof(value)
    [] name = "sqrt" -> sqrt(value)
    [] name = "cbrt" -> cbrt(value)
    [] OTHER -> Throw("UnrecognizedFunction")

\* The VariableAccess branch with a '-' index taken as an absolute key
variableAccess_absolute(name, ctx) ==
  IF name \in DOMAIN ctx THEN Ok(ctx[name]) ELSE Throw("UnboundVariable")

\* The VariableAccess branch of evaluateExpression
variableAccess(name, ctx) ==
  IF startsWithMinus(name) /\ ~getSizeDefined(ctx) THEN Throw("TypeError")
  ELSE LET key == IF startsWithMinus(name)
                  THEN toString(getSize(ctx) + parseInt(name))
                  ELSE name
       IN  IF key \in DOMAIN ctx THEN Ok(ctx[key])
           ELSE Throw("UnboundVariable")

RECURSIVE evaluateExpression(_, _)
evaluateExpression(ast, ctx) ==
  CASE ast.type = "Function" ->
         LET value == evaluateExpression(ast.value, ctx)
         IN  IF value.ok THEN applyFunction(ast.name, value.q, ctx) ELSE value
    [] ast.type = "BinaryExpression" ->
         LET left == evaluateExpression(ast.left, ctx)
             right == evaluateExpression(ast.right, ctx)
         IN  IF ~left.ok THEN left
             ELSE IF ~right.ok THEN right
             ELSE applyBinary(ast.operator, left.q, right.q)
    [] ast.type = "UnaryExpression" ->
         LET operand == evaluateExpression(ast.operand, ctx)
         IN  IF operand.ok THEN applyUnary(ast.operator, operand.q)
             ELSE operand
    [] ast.type = "Number" -> Quantity(fromFraction(ast.text), "scalar", ZERO)
    [] ast.type = "EdjiFraction" ->
         Quantity(fromEqualTemperament(FDiv(ast.numerator, ast.denominator),
                                       Fraction(2, 1)),
                  "pitch", ONE)
    [] ast.type \in {"Monzo", "Val"} ->
         Quantity(Monzo(ast.components), "pitch",
                  IF ast.type = "Monzo" THEN ONE ELSE NEGATIVE_ONE)
    [] ast.type = "FJS" ->
         Quantity(toJustIntonation(ast.quality, ast.degree), "pitch", ONE)
    [] ast.type = "AbsoluteFJS" ->
         LET value == absoluteToJustIntonation(ast.nominal, ast.accidentals,
                                               ast.octave)
             root == IF "#root" \in DOMAIN ctx THEN ctx["#root"].value
                     ELSE UNISON
         IN  IF inverseDefined(root)
             THEN Quantity(monzoMul(value, monzoInverse(root)), "pitch", ONE)
             ELSE Throw("DivisionByZero")
    [] ast.type \in {"Hertz", "Second"} ->
         Quantity(fromFraction(ONE), "time",
                  IF ast.type = "Second" THEN ONE ELSE NEGATIVE_ONE)
    [] ast.type = "VariableAccess" -> variableAccess(ast.name, ctx)
    [] OTHER -> Throw("UnrecognizedExpression")

\* What evaluateAST leaves behind: whether it returned, the exception if
\* not, the Quantity it returned (void: has = FALSE) and the context, which
\* it mutates in place
Returned(out, ctx) == [ok |-> TRUE, err |-> "", out |-> out, ctx |-> ctx]

Thrown(e, ctx) == [ok |-> FALSE, err |-> e, out |-> Absent, ctx |-> ctx]

\* The MapDeclaration loop of evaluateAST from index i on
RECURSIVE mapLoop(_, _, _, _)
mapLoop(value, ctx, i, size) ==
  IF ~(i < size) THEN Returned(Absent, ctx)
  ELSE LET index == toString(i)
           bound == IF index \in DOMAIN ctx THEN Set(ctx, "", ctx[index])
                    ELSE Unset(ctx, "")
       IN  With(evaluateExpression(value, bound),
                LAMBDA r:
                  IF r.ok
                  THEN mapLoop(value, Set(bound, index, r.q), i + 1, size)
                  ELSE Thrown(r.err, bound))

\* evaluateAST, VariableDeclaration branch (lines 361-363)
variableDeclaration(ast, ctx) ==
  With(evaluateExpression(ast.value, ctx),
       LAMBDA r: IF r.ok THEN Returned(Absent, Set(ctx, ast.name, r.q))
                 ELSE Thrown(r.err, ctx))

\* The MapDeclaration branch with the loop started at degree 0
mapDeclaration_fromZero(ast, ctx) ==
  IF getSizeDefined(ctx) THEN mapLoop(ast.value, ctx, 0, getSize(ctx))
  ELSE Thrown("TypeError", ctx)

\* evaluateAST, MapDeclaration branch (lines 364-371)
mapDeclaration(ast, ctx) ==
  IF getSizeDefined(ctx) THEN mapLoop(ast.value, ctx, 1, getSize(ctx))
  ELSE Thrown("TypeError", ctx)

\* evaluateAST, PitchAssignment branch (lines 372-381)
pitchAssignment(ast, ctx) ==
  With(evaluateExpression(ast.value, ctx),
       LAMBDA quantity:
         IF ~quantity.ok THEN Thrown(quantity.err, ctx)
         ELSE With(evaluateExpression(ast.pitch, ctx),
                   LAMBDA root:
                     IF ~root.ok THEN Thrown(root.err, ctx)
                     ELSE Returned(Present(quantity.q),
                                   Set(ctx, "#root", root.q))))

\* The plain-expression path that also leaves its result bound to `$`
plainExpression_binding(ast, ctx) ==
  With(evaluateExpression(ast, ctx),
       LAMBDA quantity:
         IF quantity.ok
         THEN Returned(Present(quantity.q), Set(ctx, "", quantity.q))
         ELSE Thrown(quantity.err, ctx))

\* evaluateAST for any other node (lines 376-381 with rootPich undefined)
plainExpression(ast, ctx) ==
  With(evaluateExpression(ast, ctx),
       LAMBDA quantity:
         IF quantity.ok THEN Returned(Present(quantity.q), ctx)
         ELSE Thrown(quantity.err, ctx))

\* evaluateAST(ast, context)
evaluateAST(ast, ctx) ==
  CASE ast.type = "VariableDeclaration" -> variableDeclaration(ast, ctx)
    [] ast.type = "MapDeclaration" -> mapDeclaration(ast, ctx)
    [] ast.type = "PitchAssignment" -> pitchAssignment(ast, ctx)
    [] OTHER -> plainExpression(ast, ctx)

\* parseLines, lines 394-395, with '##' left at the base note
refresh_staleIndex(ctx, num, base) ==
  Set(Set(ctx, "#", int(num)), "##", int(base))

\* parseLines, lines 394-395 and 436-437: '#' and '##' are rewritten
refresh(ctx, num, base) ==
  Set(Set(ctx, "#", int(num)), "##", int(base + num))

\* The tempering loop of parseLines (lines 416-421) from index i on
RECURSIVE temperLoop(_, _, _, _, _)
temperLoop(val, step, ctx, i, num) ==
  IF ~(i < num) THEN Returned(Absent, ctx)
  ELSE LET index == toString(i)
       IN  IF index \notin DOMAIN ctx THEN Thrown("TypeError", ctx)
           ELSE With(pitch(ctx[index], Get(ctx, "0")),
             LAMBDA p:
               IF ~p.ok THEN Thrown(p.err, ctx)
               ELSE With(Quantity_mul(val, p.q),
                 LAMBDA numSteps:
                   IF ~numSteps.ok THEN Thrown(numSteps.err, ctx)
                   ELSE With(Quantity_mul(step, numSteps.q),
                     LAMBDA scaled:
                       IF ~scaled.ok THEN Thrown(scaled.err, ctx)
                       ELSE temperLoop(val, step,
                                       Set(ctx, index, scaled.q),
                                       i + 1, num))))

\* The implicit map with the base degree tempered too
temper_fromZero(val, ctx, num) ==
  IF Len(val.value.vector) = 0 THEN Thrown("TypeError", ctx)
  ELSE IF val.value.vector[1] = ZERO THEN Thrown("DivisionByZero", ctx)
  ELSE temperLoop(val,
                  Quantity(powFraction(fromFraction(Fraction(2, 1)),
                                       FInverse(val.value.vector[1])),
                           "pitch", ONE).q,
                  ctx, 0, num)

\* parseLines, lines 399-422: a val acts as an implicit map. divisions is
\* the val's first component and the equave is 2 (no Warts node is among
\* the lines of this model).
temper(val, ctx, num) ==
  IF Len(val.value.vector) = 0 THEN Thrown("TypeError", ctx)
  ELSE IF val.value.vector[1] = ZERO THEN Thrown("DivisionByZero", ctx)
  ELSE temperLoop(val,
                  Quantity(powFraction(fromFraction(Fraction(2, 1)),
                                       FInverse(val.value.vector[1])),
                           "pitch", ONE).q,
                  ctx, 1, num)

isVal(q) == q.domain = "pitch" /\ q.exponent = NEGATIVE_ONE

\* One iteration of parseLines' loop after evaluateAST has returned r:
\* the new context and degree count, or the exception
appendOutput(ast, r, num) ==
  IF ~r.ok THEN [ok |-> FALSE, err |-> r.err, ctx |-> r.ctx, num |-> num]
  ELSE IF ~r.out.has THEN [ok |-> TRUE, err |-> "", ctx |-> r.ctx, num |-> num]
  ELSE IF isVal(r.out.q)
  THEN With(temper(r.out.q, r.ctx, num),
            LAMBDA t: [ok |-> t.ok, err |-> t.err, ctx |-> t.ctx,
                       num |-> num])
  ELSE IF num = 0 /\ ~frequency(r.out.q, Absent).ok
  THEN [ok |-> FALSE, err |-> frequency(r.out.q, Absent).err,
        ctx |-> r.ctx, num |-> num]
  ELSE IF num # 0 /\ ast.type = "PitchAssignment"
  THEN [ok |-> FALSE, err |-> "PitchAssignmentNotFirst",
        ctx |-> r.ctx, num |-> num]
  ELSE [ok |-> TRUE, err |-> "",
        ctx |-> Set(r.ctx, toString(num), r.out.q), num |-> num + 1]

\* ------------------------------------------------------------ input lines
Number(n, d) == [type |-> "Number", text |-> Fraction(n, d)]

VariableAccess(name) == [type |-> "VariableAccess", name |-> name]

FJS(quality, degree) == [type |-> "FJS", quality |-> quality, degree |-> degree]

AbsoluteFJS(nominal, accidentals, octave) ==
  [type |-> "AbsoluteFJS", nominal |-> nominal, accidentals |-> accidentals,
   octave |-> octave]

BinaryExpression(operator, left, right) ==
  [type |-> "BinaryExpression", operator |-> operator, left |-> left,
   right |-> right]

Val(components) ==
  [type |-> "Val",
   components |-> [i \in 1..Len(components) |-> Fraction(components[i], 1)]]

VariableDeclaration(name, value) ==
  [type |-> "VariableDeclaration", name |-> name, value |-> value]

MapDeclaration(value) == [type |-> "MapDeclaration", value |-> value]

PitchAssignment(pitchNode, value) ==
  [type |-> "PitchAssignment", pitch |-> pitchNode, value |-> value]

Hertz == [type |-> "Hertz"]

\* The lines an input may hold, by index
LINES ==
  << Hertz,                                                  \*  1  Hz
     Number(3, 1),                                           \*  2  3
     FJS("P", 5),                                            \*  3  P5
     BinaryExpression("+", VariableAccess("-1"), FJS("P", 5)), \* 4 $-1 + P5
     VariableAccess("#"),                                    \*  5  $#
     Val(<<12, 19>>),                                        \*  6  <12 19]
     VariableDeclaration("foo", FJS("M", 2)),                \*  7  $foo = M2
     VariableAccess("foo"),                                  \*  8  $foo
     MapDeclaration(BinaryExpression("+", VariableAccess(""),
                                     FJS("P", 5))),          \*  9  = $ + P5
     MapDeclaration(BinaryExpression("+", VariableAccess(""),
                                     VariableAccess("1"))),  \* 10  = $ + $1
     PitchAssignment(AbsoluteFJS("A", <<>>, 4), Hertz),      \* 11  A4 = Hz
     PitchAssignment(AbsoluteFJS("A", <<>>, 4),
                     Val(<<12, 19>>)),                       \* 12  A4 = <12 19]
     AbsoluteFJS("E", <<>>, 5),                              \* 13  E5
     VariableDeclaration("1", Number(3, 1)),                 \* 14  "1" = 3
     VariableAccess("-2"),                                   \* 15  $-2
     VariableAccess(""),                                     \* 16  $
     BinaryExpression("^", FJS("P", 5), Number(2, 1)),       \* 17  P5 ^ 2
     BinaryExpression("mod",
       BinaryExpression("+", VariableAccess("-1"), FJS("P", 5)),
       FJS("P", 8)),                                         \* 18 ($-1 + P5) mod P8
     VariableAccess("##") >>                                 \* 19  $##

BaseMidiNotes == {60, 69}

\* ------------------------------------------------------- Spec: parseLines
NoCommaCall == [which |-> "none", index |-> 0, ok |-> TRUE, err |-> "",
                value |-> UNISON]

\* fjs.ts as the module is loaded: both caches hold their two initial
\* entries and both generators are fresh
CIdle ==
  /\ formalCommas = <<fromFraction(ONE), fromFraction(ONE)>>
  /\ neutralCommas = <<fromFraction(ONE), fromFraction(ONE)>>
  /\ formalIterator = NewIterator
  /\ neutralIterator = NewIterator
  /\ commaCall = NoCommaCall
  /\ commaLog = <<>>
  /\ commasBefore = [formalCommas |-> formalCommas,
                     neutralCommas |-> neutralCommas,
                     formalIterator |-> formalIterator,
                     neutralIterator |-> neutralIterator]
  /\ numCalls = 0

\* no call of masterAlgorithm is in progress
MIdle ==
  /\ mPrime = 0
  /\ mPythagoras = 0
  /\ mK = 0
  /\ mStatus = "idle"
  /\ mResult = 0

\* What the calculator records of a call: the exception, or the value
\* returned (a monzo m, a Fraction f, or the pair f, e)
XResult(ok, err, m, f, e) == [ok |-> ok, err |-> err, m |-> m, f |-> f, e |-> e]

XArgs(a, b, f, n, e) == [a |-> a, b |-> b, f |-> f, n |-> n, e |-> e]

NotMade == [op |-> "none", f |-> ZERO, n |-> 0, e |-> ONE]

\* the calculator is not in use
XIdle ==
  /\ xa = NoMonzo
  /\ xprev = NoMonzo
  /\ xmade = NotMade
  /\ xop = "idle"
  /\ xargs = XArgs(NoMonzo, NoMonzo, ZERO, 0, ONE)
  /\ xres = XResult(TRUE, "", NoMonzo, ZERO, ONE)
  /\ xsteps = 0

\* no method has been called on a double-valued cents offset
DIdle ==
  /\ dop = "idle"
  /\ dargs = [a |-> NoMonzo, b |-> NoMonzo]
  /\ dres = MOk(NoMonzo)

\* what an action returns when it has no return value
Undefined == [type |-> "undefined"]

\* parse has not been called
NotParsed == [ok |-> FALSE, ast |-> Undefined, pos |-> -1]

\* no line has been typed
GIdle ==
  /\ gtokens = <<>>
  /\ gparsed = NotParsed

\* wartsToVal has not been called
NoWarts ==
  [equave |-> "", edo |-> 0, warts |-> <<>>,
   subgroupString |-> [dotted |-> FALSE, parts |-> <<>>],
   lenient |-> TRUE, noise |-> 0]

WIdle ==
  /\ wargs = NoWarts
  /\ wres = [ok |-> TRUE, err |-> "", subgroup |-> <<>>, val |-> <<>>,
             vector |-> <<>>]

\* Math.pow answers the double below (FALSE) or above (TRUE) a power that
\* is no double: of 2 to k + 1/2, by k, and of another base to an integer
Platforms ==
  [half : [-2..2 -> BOOLEAN], power : BOOLEAN]

DefaultPlatform == [half |-> [k \in -2..2 |-> TRUE], power |-> TRUE]

NoScale == [intervals |-> <<>>, equave |-> NoMonzo, baseFrequency |-> 0]

NoScaleArgs ==
  [generator |-> NoMonzo, period |-> NoMonzo, size |-> 0, down |-> 0,
   numPeriods |-> 0, scale |-> NoScale, start |-> 0, end |-> 0]

NoScaleResult ==
  [made |-> [ok |-> TRUE, err |-> "", scale |-> NoScale], range |-> <<>>]

\* no method of a Scale has been called
SIdle ==
  /\ splatform = DefaultPlatform
  /\ sop = "idle"
  /\ sargs = NoScaleArgs
  /\ sres = NoScaleResult

\* removeDuplicatesInPlace has not been called
UIdle ==
  /\ uintervals = <<>>
  /\ ui = 0
  /\ uj = 0
  /\ upc = "idle"
  /\ ucall = [method |-> "none", err |-> "", intervals |-> <<>>]

NoOutput == [ok |-> TRUE, err |-> "", out |-> Absent]

NoPitch == [type |-> "None"]

Init ==
  /\ context = EmptyContext
  /\ numQuantities = 0
  /\ baseMidiNote \in BaseMidiNotes
  /\ lineNo = 0
  /\ status = "running"
  /\ error = ""
  /\ lastLine = 0
  /\ ctxBefore = EmptyContext
  /\ ctxAfterEval = EmptyContext
  /\ lastOutput = NoOutput
  /\ numBefore = 0
  /\ tempered = FALSE
  /\ assigned = NoPitch
  /\ qa = NoQuantity
  /\ qb = NoQuantity
  /\ qop = "idle"
  /\ qargs = <<NoQuantity, NoQuantity>>
  /\ qres = Ok(NoQuantity)
  /\ qsteps = 0
  /\ CIdle
  /\ MIdle
  /\ XIdle
  /\ DIdle /\ GIdle /\ WIdle /\ SIdle /\ UIdle

\* One iteration of the for loop of parseLines over the line LINES[k]
ParseLine(k) ==
  /\ status = "running"
  /\ lineNo < MaxLines
  /\ \E before \in {refresh(context, numQuantities, baseMidiNote)} :
     \E r \in {evaluateAST(LINES[k], before)} :
     \E a \in {appendOutput(LINES[k], r, numQuantities)} :
       /\ ctxBefore' = before
       /\ ctxAfterEval' = r.ctx
       /\ lastOutput' = [ok |-> r.ok, err |-> r.err, out |-> r.out]
       /\ context' = a.ctx
       /\ numQuantities' = a.num
       /\ status' = IF a.ok THEN "running" ELSE "failed"
       /\ error' = a.err
       /\ tempered' = (tempered \/ (a.ok /\ r.out.has /\ isVal(r.out.q)))
       /\ assigned' = IF r.ok /\ LINES[k].type = "PitchAssignment"
                      THEN LINES[k].pitch
                      ELSE assigned
  /\ lastLine' = k
  /\ numBefore' = numQuantities
  /\ lineNo' = lineNo + 1
  /\ UNCHANGED <<baseMidiNote, qvars, cvars, mvars, xvars, dvars, gvars, wvars, svars, uvars>>

\* The input is exhausted: lines 436-438
Finish ==
  /\ status = "running"
  /\ context' = refresh(context, numQuantities, baseMidiNote)
  /\ status' = "done"
  /\ UNCHANGED <<numQuantities, baseMidiNote, lineNo, error, lastLine,
                 ctxBefore, ctxAfterEval, lastOutput, numBefore, tempered,
                 assigned, qvars, cvars, mvars, xvars, dvars, gvars, wvars, svars, uvars>>

Next ==
  \/ \E k \in 1..Len(LINES) : ParseLine(k)
  \/ Finish

Spec == Init /\ [][Next]_vars

\* ------------------------------------------------------ QSpec: calculator
Domains == {"time", "scalar", "pitch"}

\* Quantities the calculator starts from: 2, 0, 1/2, -1, Hz, s, 2 Hz,
\* P5, P8, the val <2 3] and one float
QBase ==
  { Quantity(fromFraction(Fraction(2, 1)), "scalar", ZERO).q,
    Quantity(fromFraction(ZERO), "scalar", ZERO).q,
    Quantity(fromFraction(Fraction(1, 2)), "scalar", ZERO).q,
    Quantity(fromFraction(NEGATIVE_ONE), "scalar", ZERO).q,
    Quantity(INEXACT, "scalar", ZERO).q,
    Quantity(fromFraction(ONE), "time", NEGATIVE_ONE).q,
    Quantity(fromFraction(ONE), "time", ONE).q,
    Quantity(fromFraction(Fraction(2, 1)), "time", NEGATIVE_ONE).q,
    Quantity(Monzo(<<Fraction(-1, 1), Fraction(1, 1)>>), "pitch", ONE).q,
    Quantity(Monzo(<<Fraction(1, 1), Fraction(0, 1)>>), "pitch", ONE).q,
    Quantity(Monzo(<<Fraction(2, 1), Fraction(3, 1)>>), "pitch",
             NEGATIVE_ONE).q }

\* Arguments handed to the constructor
QValues == {fromFraction(Fraction(2, 1)), Monzo(<<Fraction(1, 1)>>)}

QExponents == {ZERO, ONE, NEGATIVE_ONE, Fraction(1, 2)}

SmallFraction(f) == Abs(f[1]) <= MaxMagnitude /\ f[2] <= MaxMagnitude

\* A quantity the calculator keeps as an operand
Keep(q) ==
  /\ SmallFraction(q.exponent)
  /\ SmallFraction(q.value.residual)
  /\ \A i \in 1..Len(q.value.vector) : SmallFraction(q.value.vector[i])
  /\ isFractional(q.value) => SmallFraction(toFraction(q.value))

QInit ==
  /\ qa \in QBase
  /\ qb \in QBase
  /\ qop = "init"
  /\ qargs = <<qa, qb>>
  /\ qres = Ok(qa)
  /\ qsteps = 0
  /\ context = EmptyContext
  /\ numQuantities = 0
  /\ baseMidiNote = 0
  /\ lineNo = 0
  /\ status = "idle"
  /\ error = ""
  /\ lastLine = 0
  /\ ctxBefore = EmptyContext
  /\ ctxAfterEval = EmptyContext
  /\ lastOutput = [ok |-> TRUE, err |-> "", out |-> Absent]
  /\ numBefore = 0
  /\ tempered = FALSE
  /\ assigned = NoPitch
  /\ CIdle
  /\ MIdle
  /\ XIdle
  /\ DIdle /\ GIdle /\ WIdle /\ SIdle /\ UIdle

QApply(name, a, b, r) ==
  /\ qsteps < MaxOps
  /\ qop' = name
  /\ qargs' = <<a, b>>
  /\ qres' = r
  /\ qa' = IF r.ok /\ Keep(r.q) THEN r.q ELSE qa
  /\ qb' = qb
  /\ qsteps' = qsteps + 1
  /\ UNCHANGED <<pvars, cvars, mvars, xvars, dvars, gvars, wvars, svars, uvars>>

QConstruct ==
  \E v \in QValues, d \in Domains, e \in QExponents :
    QApply("construct",
           [value |-> v, domain |-> d, exponent |-> e],
           [value |-> v, domain |-> d, exponent |-> e],
           Quantity(v, d, e))

QNeg == QApply("neg", qa, qb, Quantity_neg(qa))

QInverse == QApply("inverse", qa, qb, Quantity_inverse(qa))

QAdd == QApply("add", qa, qb, Quantity_add(qa, qb))

QSub == QApply("sub", qa, qb, Quantity_sub(qa, qb))

QMul == QApply("mul", qa, qb, Quantity_mul(qa, qb))

QDiv == QApply("div", qa, qb, Quantity_div(qa, qb))

QPow == QApply("pow", qa, qb, Quantity_pow(qa, qb))

QLog == QApply("log", qa, qb, Quantity_log(qa, qb))

QMod == QApply("mod", qa, qb, Quantity_mod(qa, qb))

QReduce == QApply("reduce", qa, qb, Quantity_reduce(qa, qb))

QNormalizeFrequency ==
  QApply("normalizeFrequency", qa, qb, normalizeFrequency(qa))

QRatio ==
  \E base \in {Absent, Present(qb)} :
    QApply("ratio", qa, qb, ratio(qa, base))

QFrequency ==
  \E base \in {Absent, Present(qb)} :
    QApply("frequency", qa, qb, frequency(qa, base))

QPitch ==
  \E base \in {Absent, Present(qb)} :
    QApply("pitch", qa, qb, pitch(qa, base))

\* The caller uses an earlier result as the right operand
QSwap ==
  /\ qa # qb
  /\ qa' = qb
  /\ qb' = qa
  /\ UNCHANGED <<qop, qargs, qres, qsteps>>
  /\ UNCHANGED <<pvars, cvars, mvars, xvars, dvars, gvars, wvars, svars, uvars>>

QNext ==
  \/ QConstruct
  \/ QNeg
  \/ QInverse
  \/ QAdd
  \/ QSub
  \/ QMul
  \/ QDiv
  \/ QPow
  \/ QLog
  \/ QMod
  \/ QReduce
  \/ QNormalizeFrequency
  \/ QRatio
  \/ QFrequency
  \/ QPitch
  \/ QSwap

QSpec == QInit /\ [][QNext]_vars

\* ------------------------------------------------------------------ CSpec
\* Callers of getFormalComma and getNeutralComma, in any order, with indices
\* inside the initial cache, inside the prime table, at its end and beyond.
CommaIndices ==
  {0, 3, 7, Len(PRIME_CENTS) - 1, Len(PRIME_CENTS), Len(PRIME_CENTS) + 1}

\* the calculator is not in use
QIdle ==
  /\ qa = NoQuantity
  /\ qb = NoQuantity
  /\ qop = "idle"
  /\ qargs = <<NoQuantity, NoQuantity>>
  /\ qres = Ok(NoQuantity)
  /\ qsteps = 0

\* parseLines is not in use
PIdle ==
  /\ context = EmptyContext
  /\ numQuantities = 0
  /\ baseMidiNote = 0
  /\ lineNo = 0
  /\ status = "idle"
  /\ error = ""
  /\ lastLine = 0
  /\ ctxBefore = EmptyContext
  /\ ctxAfterEval = EmptyContext
  /\ lastOutput = NoOutput
  /\ numBefore = 0
  /\ tempered = FALSE
  /\ assigned = NoPitch

CInit == QIdle /\ PIdle /\ CIdle /\ MIdle /\ XIdle /\ DIdle /\ GIdle /\ WIdle /\ SIdle /\ UIdle

CommaCall(which, index, r) ==
  /\ numCalls < MaxCalls
  /\ commaCall' = [which |-> which, index |-> index, ok |-> r.ok,
                   err |-> r.err, value |-> r.value]
  /\ commaLog' = Append(commaLog, commaCall')
  /\ commasBefore' = [formalCommas |-> formalCommas,
                      neutralCommas |-> neutralCommas,
                      formalIterator |-> formalIterator,
                      neutralIterator |-> neutralIterator]
  /\ numCalls' = numCalls + 1
  /\ UNCHANGED <<qvars, pvars, mvars, xvars, dvars, gvars, wvars, svars, uvars>>

GetFormalComma(index) ==
  \E r \in {getComma("formal", index, formalCommas, formalIterator)} :
    /\ CommaCall("formal", index, r)
    /\ formalCommas' = r.commas
    /\ formalIterator' = r.iterator
    /\ UNCHANGED <<neutralCommas, neutralIterator>>

GetNeutralComma(index) ==
  \E r \in {getComma("neutral", index, neutralCommas, neutralIterator)} :
    /\ CommaCall("neutral", index, r)
    /\ neutralCommas' = r.commas
    /\ neutralIterator' = r.iterator
    /\ UNCHANGED <<formalCommas, formalIterator>>

CNext ==
  \/ \E index \in CommaIndices : GetFormalComma(index)
  \/ \E index \in CommaIndices : GetNeutralComma(index)

CSpec == CInit /\ [][CNext]_vars

\* ------------------------------------------------------------------ XSpec
\* A caller of the pitch-space ExtendedMonzo: it builds monzos with the
\* static constructors and combines the one it holds with the one it held
\* before and with a few fixed ones.
XFractions ==
  {ONE, ZERO, NEGATIVE_ONE, Fraction(2, 1), Fraction(3, 2), Fraction(1, 3),
   Fraction(5, 4), Fraction(9, 4)}

XComponents == 0..3

OCTAVE_CENTS == Finite(Fraction(PRIME_CENTS[1], 1))

XCents ==
  {Finite(ZERO), OCTAVE_CENTS, Finite(Fraction(-FIFTH, 1)), Infinity}

XNumerators == -1..2

XDenominators == 1..3

XEquaves ==
  {ONE, Fraction(2, 1), Fraction(3, 1), Fraction(4, 1), Fraction(1, 2),
   Fraction(3, 2)}

XScalars == {ZERO, NEGATIVE_ONE, Fraction(2, 1), Fraction(1, 2)}

\* 2/1, 3/2, 3/2 with the 3 in the residual, 1/2 on three components, a
\* half octave, the unison, 2/1 less 1200 cents, an infinite offset and the
\* monzo of 0
XBase ==
  { ExtendedMonzo_fromFraction(Fraction(2, 1), 1).m,
    ExtendedMonzo_fromFraction(Fraction(3, 2), 2).m,
    ExtendedMonzo_fromFraction(Fraction(3, 2), 1).m,
    ExtendedMonzo_fromFraction(Fraction(1, 2), 3).m,
    ExtendedMonzo_fromEqualTemperament(Fraction(1, 2), Fraction(2, 1)).m,
    ExtendedMonzo_fromFraction(ONE, 2).m,
    ExtendedMonzo(<<ONE>>, ONE, numNeg(OCTAVE_CENTS)).m,
    ExtendedMonzo_fromCents(Infinity, 1).m,
    ExtendedMonzo_fromFraction(ZERO, 1).m }

\* A monzo the caller holds on to
XKeep(m) ==
  /\ SmallFraction(m.residual)
  /\ \A i \in 1..Len(m.vector) : SmallFraction(m.vector[i])
  /\ Len(m.vector) <= 3
  /\ m.cents.kind = "finite" =>
       /\ m.cents.q[2] <= MaxMagnitude
       /\ Abs(m.cents.q[1]) <= MaxMagnitude * PRIME_CENTS[1]
  /\ ExtendedMonzo_totalCents(m).kind = "finite" =>
       /\ ExtendedMonzo_totalCents(m).q[2] <= MaxMagnitude
       /\ Abs(ExtendedMonzo_totalCents(m).q[1])
            <= MaxMagnitude * MaxMagnitude * PRIME_CENTS[1]

\* The caller starts with one of the fixed monzos in hand
XInit ==
  /\ QIdle /\ PIdle /\ CIdle /\ MIdle /\ DIdle /\ GIdle /\ WIdle /\ SIdle /\ UIdle
  /\ xa \in XBase
  /\ xprev = NoMonzo
  /\ xmade = NotMade
  /\ xop = "idle"
  /\ xargs = XArgs(NoMonzo, NoMonzo, ZERO, 0, ONE)
  /\ xres = XResult(TRUE, "", NoMonzo, ZERO, ONE)
  /\ xsteps = 0

\* The receiver and the argument of a binary method: the monzo held with
\* a fixed one or the one held before, or the one held before with the one
\* held
XPairs == ({xa} \X (XBase \cup {xprev})) \cup {<<xprev, xa>>}

\* The static constructors are the first call of a run.
\* A call is recorded; `keep` says whether the caller holds on to the monzo
\* returned, `made` is the constructor call when a constructor built it
XApply(name, args, r, keep, made) ==
  /\ xsteps < MaxOps
  /\ xop' = name
  /\ xargs' = args
  /\ xres' = r
  /\ xa' = IF keep THEN r.m ELSE xa
  /\ xprev' = IF keep THEN xa ELSE xprev
  /\ xmade' = IF keep THEN made ELSE xmade
  /\ xsteps' = xsteps + 1
  /\ UNCHANGED <<qvars, pvars, cvars, mvars, dvars, gvars, wvars, svars, uvars>>

\* the record of a method that answers a monzo
XMonzo(r) == XResult(r.ok, r.err, r.m, ZERO, ONE)

XFromFraction ==
  /\ xsteps = 0
  /\ \E fraction \in XFractions, n \in XComponents :
       \E r \in {ExtendedMonzo_fromFraction(fraction, n)} :
         XApply("fromFraction", XArgs(xa, xa, fraction, n, ONE), XMonzo(r),
                r.ok,
                [op |-> "fromFraction", f |-> fraction, n |-> n, e |-> ONE])

XFromCents ==
  /\ xsteps = 0
  /\ \E cents \in XCents, n \in XComponents :
       \E r \in {ExtendedMonzo_fromCents(cents, n)} :
         XApply("fromCents", XArgs(xa, xa, cents.q, n, ONE), XMonzo(r),
                r.ok, NotMade)

XFromEqualTemperament ==
  /\ xsteps = 0
  /\ \E k \in XNumerators, n \in XDenominators, equave \in XEquaves :
       \E r \in {ExtendedMonzo_fromEqualTemperament(Fraction(k, n), equave)} :
         XApply("fromEqualTemperament",
                XArgs(xa, xa, Fraction(k, n), 0, equave), XMonzo(r), r.ok,
                [op |-> "fromEqualTemperament", f |-> Fraction(k, n), n |-> 0,
                 e |-> equave])

XToFraction ==
  \E r \in {ExtendedMonzo_toFraction(xa)} :
    XApply("toFraction", XArgs(xa, xa, ZERO, 0, ONE),
           XResult(r.ok, r.err, NoMonzo, r.f, ONE), FALSE, NotMade)

XToEqualTemperament ==
  \E r \in {ExtendedMonzo_toEqualTemperament(xa)} :
    XApply("toEqualTemperament", XArgs(xa, xa, ZERO, 0, ONE),
           XResult(r.ok, r.err, NoMonzo, r.fractionOfEquave, r.equave),
           FALSE, NotMade)

\* a method of one monzo that answers a monzo
XUnary(name, this, r) ==
  XApply(name, XArgs(this, this, ZERO, 0, ONE), XMonzo(r),
         r.ok /\ XKeep(r.m), NotMade)

\* a method of two monzos that answers a monzo
XBinary(name, this, other, r) ==
  XApply(name, XArgs(this, other, ZERO, 0, ONE), XMonzo(r),
         r.ok /\ XKeep(r.m), NotMade)

XNeg == XUnary("neg", xa, ExtendedMonzo_neg(xa))

XAdd ==
  \E pair \in XPairs :
    XBinary("add", pair[1], pair[2], ExtendedMonzo_add(pair[1], pair[2]))

XSub ==
  \E pair \in XPairs :
    XBinary("sub", pair[1], pair[2], ExtendedMonzo_sub(pair[1], pair[2]))

XMul ==
  \E scalar \in XScalars :
    \E r \in {ExtendedMonzo_mul(xa, scalar)} :
      XApply("mul", XArgs(xa, xa, scalar, 0, ONE), XMonzo(r),
             r.ok /\ XKeep(r.m), NotMade)

XDiv ==
  \E scalar \in XScalars \ {ZERO} :
    \E r \in {ExtendedMonzo_div(xa, scalar)} :
      XApply("div", XArgs(xa, xa, scalar, 0, ONE), XMonzo(r),
             r.ok /\ XKeep(r.m), NotMade)

XMmod ==
  \E other \in XBase :
    XBinary("mmod", xa, other, ExtendedMonzo_mmod(xa, other))

XIntervalMmod ==
  \E other \in XBase :
    XBinary("Interval.mmod", xa, other, Interval_mmod(xa, other))

XNext ==
  \/ XFromFraction
  \/ XFromCents
  \/ XFromEqualTemperament
  \/ XToFraction
  \/ XToEqualTemperament
  \/ XNeg
  \/ XAdd
  \/ XSub
  \/ XMul
  \/ XDiv
  \/ XMmod
  \/ XIntervalMmod

XSpec == XInit /\ [][XNext]_vars

\* ------------------------------------------------------------------ MSpec
\* masterAlgorithm(PRIME_CENTS[i]) run one loop pass at a time.
MInit == QIdle /\ PIdle /\ CIdle /\ MIdle /\ XIdle /\ DIdle /\ GIdle /\ WIdle /\ SIdle /\ UIdle

\* Entry of masterAlgorithm: lines 21-26
MStart(i) ==
  /\ mStatus = "idle"
  /\ mPrime' = i
  /\ mPythagoras' = 0
  /\ mK' = 0
  /\ IF distance(PRIME_CENTS[i], 0) < RADIUS_OF_TOLERANCE
     THEN mStatus' = "returned" /\ mResult' = 0
     ELSE mStatus' = "searching" /\ mResult' = mResult
  /\ UNCHANGED <<qvars, pvars, cvars, xvars, dvars, gvars, wvars, svars, uvars>>

\* One pass of the while (true) loop: lines 27-37
MStep ==
  /\ mStatus = "searching"
  /\ mK < MaxFifths
  /\ \E s \in {masterStep(PRIME_CENTS[mPrime], mPythagoras, mK)} :
       /\ mPythagoras' = s.pythagoras
       /\ mK' = Abs(s.k)
       /\ mStatus' = IF s.done THEN "returned" ELSE "searching"
       /\ mResult' = IF s.done THEN s.k ELSE mResult
  /\ UNCHANGED <<mPrime, qvars, pvars, cvars, xvars, dvars, gvars, wvars, svars, uvars>>

MNext ==
  \/ \E i \in 1..Len(PRIME_CENTS) : MStart(i)
  \/ MStep

MSpec == MInit /\ [][MNext]_vars

\* The caller's thread keeps running: a loop pass that can be taken is taken
MSpecFair == MSpec /\ WF_vars(MStep)

(***************************************************************************)
(* The cents offset as a JavaScript number.  `cents` is an IEEE 754        *)
(* binary64 value, and mmod divides, floors, multiplies and subtracts it   *)
(* (fjs.ts, mmod / mul / sub / totalCents).  Here those four operations    *)
(* are carried out to the bit, rounding to nearest, ties to even, on       *)
(* monzos that are a bare cents offset: ExtendedMonzo.fromCents(c, 0), no  *)
(* vector components and residual 1.  Subnormals, infinities and NaN do    *)
(* not arise from the offsets of DCents.                                   *)
(***************************************************************************)

\* A natural number of any size: its digits in base 2^15, lowest first,
\* the highest one not 0 (0 is the empty sequence)
DIGIT_BITS == 15

BASE == 2 ^ DIGIT_BITS

Digit(x) == IF x = <<>> THEN 0 ELSE x[1]

Rest(x) == IF x = <<>> THEN <<>> ELSE Tail(x)

RECURSIVE Trim(_)
Trim(x) ==
  IF x = <<>> \/ x[Len(x)] # 0 THEN x ELSE Trim(SubSeq(x, 1, Len(x) - 1))

RECURSIVE BigAdd(_, _, _)
\* x + y + carry
BigAdd(x, y, carry) ==
  IF x = <<>> /\ y = <<>>
  THEN IF carry = 0 THEN <<>> ELSE <<carry>>
  ELSE <<(Digit(x) + Digit(y) + carry) % BASE>>
         \o BigAdd(Rest(x), Rest(y), (Digit(x) + Digit(y) + carry) \div BASE)

RECURSIVE BigSubBorrow(_, _, _)
BigSubBorrow(x, y, borrow) ==
  IF x = <<>> THEN <<>>
  ELSE <<(Digit(x) - Digit(y) - borrow + BASE) % BASE>>
         \o BigSubBorrow(Tail(x), Rest(y),
                         IF Digit(x) - Digit(y) - borrow < 0 THEN 1 ELSE 0)

\* x - y, for x >= y
BigSub(x, y) == Trim(BigSubBorrow(x, y, 0))

BigLess(x, y) ==
  \/ Len(x) < Len(y)
  \/ /\ Len(x) = Len(y)
     /\ \E i \in 1..Len(x) :
          /\ x[i] < y[i]
          /\ \A j \in (i + 1)..Len(x) : x[j] = y[j]

RECURSIVE MulSmallCarry(_, _, _)
MulSmallCarry(x, k, carry) ==
  IF x = <<>> THEN IF carry = 0 THEN <<>> ELSE <<carry>>
  ELSE <<(x[1] * k + carry) % BASE>>
         \o MulSmallCarry(Tail(x), k, (x[1] * k + carry) \div BASE)

\* x * k + carry, for k and carry below BASE
MulSmall(x, k, carry) == Trim(MulSmallCarry(x, k, carry))

\* x * 2^n
ShiftLeft(x, n) ==
  IF x = <<>> THEN <<>>
  ELSE [i \in 1..(n \div DIGIT_BITS) |-> 0]
         \o MulSmall(x, 2 ^ (n % DIGIT_BITS), 0)

\* x without its `digits` lowest digits, \div 2^bits
DropLow(x, digits, bits) ==
  Trim([i \in 1..(Len(x) - digits) |->
          (x[i + digits] \div (2 ^ bits))
            + (IF i + digits < Len(x)
               THEN (x[i + 1 + digits] % (2 ^ bits))
                      * (2 ^ (DIGIT_BITS - bits))
               ELSE 0)])

\* x \div 2^n
ShiftRight(x, n) == DropLow(x, n \div DIGIT_BITS, n % DIGIT_BITS)

\* the number of binary digits of x
BitLength(x) ==
  IF x = <<>> THEN 0
  ELSE DIGIT_BITS * (Len(x) - 1)
         + (CHOOSE n \in 1..DIGIT_BITS :
              2 ^ (n - 1) <= x[Len(x)] /\ x[Len(x)] < 2 ^ n)

\* binary digit i of x, the lowest being digit 1
BitAt(x, i) ==
  IF ((i - 1) \div DIGIT_BITS) + 1 > Len(x) THEN 0
  ELSE (x[((i - 1) \div DIGIT_BITS) + 1]
          \div (2 ^ ((i - 1) % DIGIT_BITS))) % 2

\* the n lowest binary digits of x are all 0
LowBitsZero(x, n) == ShiftLeft(ShiftRight(x, n), n) = x

RECURSIVE BigMul(_, _)
BigMul(x, y) ==
  IF y = <<>> \/ x = <<>> THEN <<>>
  ELSE BigAdd(MulSmall(x, y[1], 0),
              IF Tail(y) = <<>> THEN <<>> ELSE <<0>> \o BigMul(x, Tail(y)),
              0)

\* One step of the long division of n by d: binary digit st.i of n is
\* brought down to the remainder st.r, and the quotient st.q gains a digit
BigDivStep(n, d, st) ==
  With(MulSmall(st.r, 2, BitAt(n, st.i)),
       LAMBDA rem: IF BigLess(rem, d)
                   THEN [i |-> st.i - 1, q |-> MulSmall(st.q, 2, 0),
                         r |-> rem]
                   ELSE [i |-> st.i - 1, q |-> MulSmall(st.q, 2, 1),
                         r |-> BigSub(rem, d)])

RECURSIVE BigDivSteps(_, _, _, _)
\* count steps, or as many as digits are left
BigDivSteps(n, d, st, count) ==
  IF st.i = 0 \/ count = 0 THEN st
  ELSE BigDivSteps(n, d, BigDivStep(n, d, st), count - 1)

RECURSIVE BigDivLoop(_, _, _)
\* the steps down to the lowest digit of n, eight at a time, each eight
\* carried out before the next begin
BigDivLoop(n, d, st) ==
  IF st.i = 0 THEN st
  ELSE BigDivLoop(n, d, CHOOSE next \in {BigDivSteps(n, d, st, 8)} : TRUE)

\* quotient and remainder of n by d
BigDiv(n, d) == BigDivLoop(n, d, [i |-> BitLength(n), q |-> <<>>, r |-> <<>>])

RECURSIVE FromHex(_)
\* the number written with the hexadecimal digits h, highest first
FromHex(h) ==
  IF h = <<>> THEN <<>>
  ELSE MulSmall(FromHex(SubSeq(h, 1, Len(h) - 1)), 16, h[Len(h)])

\* binary64 carries 53 significant binary digits
SIGNIFICAND == 53

\* A finite double: sign * m * 2^e with m of 53 binary digits (0: m empty,
\* e 0, sign 1; -0 is not told apart from 0, and === does not tell them
\* apart either)
DZero == [sign |-> 1, m |-> <<>>, e |-> 0]

\* sign * m * 2^e, which 53 digits can hold, as a double
Normal(sign, m, e) ==
  IF m = <<>> THEN DZero
  ELSE IF BitLength(m) > SIGNIFICAND
  THEN [sign |-> sign, m |-> ShiftRight(m, BitLength(m) - SIGNIFICAND),
        e |-> e + (BitLength(m) - SIGNIFICAND)]
  ELSE [sign |-> sign, m |-> ShiftLeft(m, SIGNIFICAND - BitLength(m)),
        e |-> e - (SIGNIFICAND - BitLength(m))]

\* sign * m * 2^e (and, when sticky, a little more in magnitude) rounded
\* to the nearest double, a tie to the even one
RoundToDouble(sign, m, e, sticky) ==
  IF BitLength(m) <= SIGNIFICAND THEN Normal(sign, m, e)
  ELSE With(BitLength(m) - SIGNIFICAND,
            LAMBDA dropped:
              IF /\ BitAt(m, dropped) = 1
                 /\ \/ sticky
                    \/ BitAt(m, dropped + 1) = 1
                    \/ ~LowBitsZero(m, dropped - 1)
              THEN Normal(sign, BigAdd(ShiftRight(m, dropped), <<1>>, 0),
                          e + dropped)
              ELSE Normal(sign, ShiftRight(m, dropped), e + dropped))

\* the double written 0x<h> * 2^e
Double(sign, h, e) == Normal(sign, FromHex(h), e)

dblNeg(a) == IF a = DZero THEN DZero ELSE [a EXCEPT !.sign = -a.sign]

\* a + b
dblAdd(a, b) ==
  With([e |-> IF a.e < b.e THEN a.e ELSE b.e,
        x |-> ShiftLeft(a.m, IF a.e < b.e THEN 0 ELSE a.e - b.e),
        y |-> ShiftLeft(b.m, IF a.e < b.e THEN b.e - a.e ELSE 0)],
       LAMBDA aligned:
         IF a.sign = b.sign
         THEN RoundToDouble(a.sign, BigAdd(aligned.x, aligned.y, 0),
                            aligned.e, FALSE)
         ELSE IF BigLess(aligned.x, aligned.y)
         THEN RoundToDouble(b.sign, BigSub(aligned.y, aligned.x),
                            aligned.e, FALSE)
         ELSE RoundToDouble(a.sign, BigSub(aligned.x, aligned.y),
                            aligned.e, FALSE))

\* a - b
dblSub(a, b) == dblAdd(a, dblNeg(b))

\* a * b
dblMul(a, b) == RoundToDouble(a.sign * b.sign, BigMul(a.m, b.m), a.e + b.e,
                              FALSE)

\* a / b, for b # 0: the quotient is taken to 56 or 57 binary digits, and
\* the remainder tells whether digits follow
dblDiv(a, b) ==
  IF a = DZero THEN DZero
  ELSE With(BigDiv(ShiftLeft(a.m, SIGNIFICAND + 3), b.m),
            LAMBDA quotient:
              RoundToDouble(a.sign * b.sign, quotient.q,
                            a.e - b.e - (SIGNIFICAND + 3),
                            quotient.r # <<>>))

\* a < b
dblLess(a, b) == dblSub(a, b).sign = -1

\* Math.floor(a)
dblFloor(a) ==
  IF a.e >= 0 \/ LowBitsZero(a.m, -a.e) THEN a
  ELSE IF a.sign = 1 THEN Normal(1, ShiftRight(a.m, -a.e), 0)
  ELSE Normal(-1, BigAdd(ShiftRight(a.m, -a.e), <<1>>, 0), 0)

\* ExtendedMonzo.fromCents(cents, 0)
CentsMonzo(cents) == [vector |-> <<>>, residual |-> ONE, cents |-> cents]

\* totalCents(): this.cents + valueToCents(1), and no component to add
CentsMonzo_totalCents(this) == dblAdd(this.cents, DZero)

\* mul(scalar) for a whole scalar: the residual 1 stays 1
CentsMonzo_mul(this, scalar) == CentsMonzo(dblMul(this.cents, scalar))

CentsMonzo_neg(this) == CentsMonzo(dblNeg(this.cents))

CentsMonzo_add(this, other) == CentsMonzo(dblAdd(this.cents, other.cents))

CentsMonzo_sub(this, other) == CentsMonzo(dblSub(this.cents, other.cents))

\* ExtendedMonzo.mmod
CentsMonzo_mmod(this, other) ==
  IF CentsMonzo_totalCents(other) = DZero
  THEN MThrow("Modulo by unison")
  ELSE MOk(CentsMonzo_sub(this,
             CentsMonzo_mul(other,
               dblFloor(dblDiv(CentsMonzo_totalCents(this),
                               CentsMonzo_totalCents(other))))))

\* Interval.mmod on the intervals' monzos: sub is add(neg())
CentsInterval_mmod(this, other) ==
  IF CentsMonzo_totalCents(other) = DZero
  THEN MThrow("Modulo by unison")
  ELSE MOk(CentsMonzo_add(this,
             CentsMonzo_neg(CentsMonzo_mul(other,
               dblFloor(dblDiv(CentsMonzo_totalCents(this),
                               CentsMonzo_totalCents(other)))))))

(***************************************************************************)
(* DSpec: a caller takes mmod of one cents offset by another, once.        *)
(***************************************************************************)

\* The offsets the caller writes: 0, 0.1, 0.3, 0.37, 1.7, -1.7, 4.81,
\* 701.955, 1200 and 3600 cents, as the doubles these literals denote
DCents == {
  DZero,
  Double(1, <<1, 9, 9, 9, 9, 9, 9, 9, 9, 9, 9, 9, 9, 10>>, -56),
  Double(1, <<1, 3, 3, 3, 3, 3, 3, 3, 3, 3, 3, 3, 3, 3>>, -54),
  Double(1, <<1, 7, 10, 14, 1, 4, 7, 10, 14, 1, 4, 7, 10, 14>>, -54),
  Double(1, <<1, 11, 3, 3, 3, 3, 3, 3, 3, 3, 3, 3, 3, 3>>, -52),
  Double(-1, <<1, 11, 3, 3, 3, 3, 3, 3, 3, 3, 3, 3, 3, 3>>, -52),
  Double(1, <<1, 3, 3, 13, 7, 0, 10, 3, 13, 7, 0, 10, 3, 13>>, -50),
  Double(1, <<1, 5, 14, 15, 10, 3, 13, 7, 0, 10, 3, 13, 7, 1>>, -43),
  Double(1, <<4, 11, 0>>, 0),
  Double(1, <<14, 1, 0>>, 0) }

DInit == QIdle /\ PIdle /\ CIdle /\ MIdle /\ XIdle /\ DIdle /\ GIdle /\ WIdle /\ SIdle /\ UIdle

DMmod(this, other) ==
  /\ dop = "idle"
  /\ dop' = "mmod"
  /\ dargs' = [a |-> CentsMonzo(this), b |-> CentsMonzo(other)]
  /\ dres' = CentsMonzo_mmod(CentsMonzo(this), CentsMonzo(other))
  /\ UNCHANGED <<qvars, pvars, cvars, mvars, xvars, gvars, wvars, svars, uvars>>

DIntervalMmod(this, other) ==
  /\ dop = "idle"
  /\ dop' = "Interval.mmod"
  /\ dargs' = [a |-> CentsMonzo(this), b |-> CentsMonzo(other)]
  /\ dres' = CentsInterval_mmod(CentsMonzo(this), CentsMonzo(other))
  /\ UNCHANGED <<qvars, pvars, cvars, mvars, xvars, gvars, wvars, svars, uvars>>

DNext ==
  \/ \E this \in DCents, other \in DCents : DMmod(this, other)
  \/ \E this \in DCents, other \in DCents : DIntervalMmod(this, other)

DSpec == DInit /\ [][DNext]_vars


\* ------------------------------------------------- GSpec: the grammar
\* The expression rules of the grammar on a line of tokens. A token is one
\* lexical element of the input: the Number 2, the Cent c, an operator or a
\* parenthesis, with no white space between them. A rule applied at
\* position pos answers whether it matched, the node it returned and the
\* position after the match.
MaxTokens == 5

Tokens == {"2", "c", "+", "-", "*", "^", "(", ")"}

UnaryExpression(operator, operand) ==
  [type |-> "UnaryExpression", operator |-> operator, operand |-> operand]

Cent == [type |-> "Cent", hard |-> FALSE]

Matched(ast, pos) == [ok |-> TRUE, ast |-> ast, pos |-> pos]

NoMatch == [ok |-> FALSE, ast |-> Undefined, pos |-> 0]

Tok(ts, pos) == IF pos <= Len(ts) THEN ts[pos] ELSE "end of input"

\* functionList
functionList ==
  {"frequency", "ratio", "pitch", "mtof", "ftom", "nmtof", "sqrt", "cbrt"}

RECURSIVE ExpressionRule(_, _)
RECURSIVE ExpressionTail(_, _, _)
RECURSIVE TermRule(_, _)
RECURSIVE TermTail(_, _, _)
RECURSIVE FactorRule(_, _)
RECURSIVE FactorTail(_, _, _)
RECURSIVE GroupRule(_, _)
RECURSIVE UnaryExpressionRule(_, _)
RECURSIVE PrimaryRule(_, _)
RECURSIVE QuantityRule(_, _)
RECURSIVE FunctionRule(_, _)
RECURSIVE ScalarMultipleRule(_, _)
RECURSIVE ScalarLikeRule(_, _)
RECURSIVE ParenthesizedExpressionRule(_, _)

\* Number: of the digit strings only 2 is a token here
NumberRule(ts, pos) ==
  IF Tok(ts, pos) = "2" THEN Matched(Number(2, 1), pos + 1) ELSE NoMatch

\* Cent
CentRule(ts, pos) ==
  IF Tok(ts, pos) = "c" THEN Matched(Cent, pos + 1) ELSE NoMatch

\* ParenthesizedExpression = '(' _ @Expression _ ')'
ParenthesizedExpressionRule(ts, pos) ==
  IF Tok(ts, pos) # "(" THEN NoMatch
  ELSE With(ExpressionRule(ts, pos + 1),
            LAMBDA inner:
              IF inner.ok /\ Tok(ts, inner.pos) = ")"
              THEN Matched(inner.ast, inner.pos + 1)
              ELSE NoMatch)

\* Function = id:ID expr:ParenthesizedExpression; FunctionExpression
\* returns nothing for an id that is not in functionList. The only run of
\* lower-case letters among the tokens is c.
FunctionRule(ts, pos) ==
  IF Tok(ts, pos) # "c" THEN NoMatch
  ELSE With(ParenthesizedExpressionRule(ts, pos + 1),
            LAMBDA expr:
              IF ~expr.ok THEN NoMatch
              ELSE IF "c" \in functionList
              THEN Matched([type |-> "Function", name |-> "c",
                            value |-> expr.ast], expr.pos)
              ELSE Matched(Undefined, expr.pos))

\* Quantity: of its alternatives Function and Cent can match these tokens
QuantityRule(ts, pos) ==
  With(FunctionRule(ts, pos),
       LAMBDA function: IF function.ok THEN function ELSE CentRule(ts, pos))

\* ScalarLike = ParenthesizedExpression / HardDecimal / Number
ScalarLikeRule(ts, pos) ==
  With(ParenthesizedExpressionRule(ts, pos),
       LAMBDA group: IF group.ok THEN group ELSE NumberRule(ts, pos))

\* ScalarMultiple = scalar: ScalarLike _ quantity: Quantity
ScalarMultipleRule(ts, pos) ==
  With(ScalarLikeRule(ts, pos),
       LAMBDA scalar:
         IF ~scalar.ok THEN NoMatch
         ELSE With(QuantityRule(ts, scalar.pos),
                   LAMBDA quantity:
                     IF ~quantity.ok THEN NoMatch
                     ELSE Matched(BinaryExpression("x", scalar.ast,
                                                   quantity.ast),
                                  quantity.pos)))

\* Primary = Quantity / ScalarMultiple / ScalarLike
PrimaryRule(ts, pos) ==
  With(QuantityRule(ts, pos),
       LAMBDA quantity:
         IF quantity.ok THEN quantity
         ELSE With(ScalarMultipleRule(ts, pos),
                   LAMBDA multiple:
                     IF multiple.ok THEN multiple
                     ELSE ScalarLikeRule(ts, pos)))

\* UnaryExpression = operator: ('+' / '-' / '%' / '÷') operand: Primary
UnaryExpressionRule(ts, pos) ==
  IF Tok(ts, pos) \notin {"+", "-"} THEN NoMatch
  ELSE With(PrimaryRule(ts, pos + 1),
            LAMBDA operand:
              IF ~operand.ok THEN NoMatch
              ELSE Matched(UnaryExpression(Tok(ts, pos), operand.ast),
                           operand.pos))

\* Group = _ @(UnaryExpression / Primary) _
GroupRule(ts, pos) ==
  With(UnaryExpressionRule(ts, pos),
       LAMBDA unary: IF unary.ok THEN unary ELSE PrimaryRule(ts, pos))

\* the tail (_ ('^') _ Factor)* of Factor, folded by operatorReducer onto
\* the node matched so far
FactorTail(ts, pos, result) ==
  IF Tok(ts, pos) # "^" THEN Matched(result, pos)
  ELSE With(FactorRule(ts, pos + 1),
            LAMBDA element:
              IF ~element.ok THEN Matched(result, pos)
              ELSE FactorTail(ts, element.pos,
                              BinaryExpression("^", result, element.ast)))

\* Factor = head:Group tail:(_ ('^') _ Factor)*
FactorRule(ts, pos) ==
  With(GroupRule(ts, pos),
       LAMBDA head:
         IF ~head.ok THEN NoMatch ELSE FactorTail(ts, head.pos, head.ast))

\* the tail of Term; of its operators '*' is a token here
TermTail(ts, pos, result) ==
  IF Tok(ts, pos) # "*" THEN Matched(result, pos)
  ELSE With(FactorRule(ts, pos + 1),
            LAMBDA element:
              IF ~element.ok THEN Matched(result, pos)
              ELSE TermTail(ts, element.pos,
                            BinaryExpression("*", result, element.ast)))

\* Term = head:Factor tail:(_ ('*' / ... / 'log') _ Factor)*
TermRule(ts, pos) ==
  With(FactorRule(ts, pos),
       LAMBDA head:
         IF ~head.ok THEN NoMatch ELSE TermTail(ts, head.pos, head.ast))

\* the tail of Expression
ExpressionTail(ts, pos, result) ==
  IF Tok(ts, pos) \notin {"+", "-"} THEN Matched(result, pos)
  ELSE With(TermRule(ts, pos + 1),
            LAMBDA element:
              IF ~element.ok THEN Matched(result, pos)
              ELSE ExpressionTail(ts, element.pos,
                                  BinaryExpression(Tok(ts, pos), result,
                                                   element.ast)))

\* Expression = head:Term tail:(_ ('+' / '-') _ Term)* EOS
ExpressionRule(ts, pos) ==
  With(TermRule(ts, pos),
       LAMBDA head:
         IF ~head.ok THEN NoMatch
         ELSE ExpressionTail(ts, head.pos, head.ast))

\* parse(input): Start must match the whole input. Of its alternatives
\* only Expression can match a line of these tokens; a line that does not
\* parse is a syntax error.
parse(ts) ==
  With(ExpressionRule(ts, 1),
       LAMBDA start:
         IF start.ok /\ start.pos = Len(ts) + 1 THEN start ELSE NoMatch)

GInit == QIdle /\ PIdle /\ CIdle /\ MIdle /\ XIdle /\ DIdle /\ GIdle /\ WIdle /\ SIdle /\ UIdle

\* one more token is typed
Type(t) ==
  /\ gparsed = NotParsed
  /\ Len(gtokens) < MaxTokens
  /\ gtokens' = Append(gtokens, t)
  /\ UNCHANGED <<gparsed, qvars, pvars, cvars, mvars, xvars, dvars, wvars, svars, uvars>>

\* the line is handed to parse
Parse ==
  /\ gparsed = NotParsed
  /\ gparsed' = parse(gtokens)
  /\ UNCHANGED <<gtokens, qvars, pvars, cvars, mvars, xvars, dvars, wvars, svars, uvars>>

GNext ==
  \/ \E t \in Tokens : Type(t)
  \/ Parse

GSpec == GInit /\ [][GNext]_vars


\* -------------------------------------------------- WSpec: wartsToVal
\* Most wart letters a call carries.
MaxWarts == 2

\* wart.charCodeAt(0) - 97 of the letters this model uses
wartIndex(wart) ==
  CASE wart = "a" -> 0 [] wart = "b" -> 1 [] wart = "c" -> 2
    [] wart = "d" -> 3 [] wart = "p" -> 15 [] wart = "q" -> 16

\* what wartToBasis answers: a Fraction, undefined, or a TypeError from
\* the Fraction constructor
Basis(f) == [ok |-> TRUE, defined |-> TRUE, f |-> f]

UndefinedBasis == [ok |-> TRUE, defined |-> FALSE, f |-> ZERO]

BasisTypeError == [ok |-> FALSE, defined |-> FALSE, f |-> ZERO]

\* wartToBasis(wart, nonPrimes). A letter past the last non-prime hands
\* undefined to the Fraction constructor, which, by the version of the
\* library, answers 0 (lenient) or throws a TypeError.
wartToBasis(wart, nonPrimes, lenient) ==
  IF wart = "" THEN Basis(Fraction(PRIMES[1], 1))
  ELSE IF wartIndex(wart) < 15
  THEN Basis(Fraction(PRIMES[wartIndex(wart) + 1], 1))
  ELSE IF wartIndex(wart) > 15
  THEN IF wartIndex(wart) - 16 + 1 <= Len(nonPrimes)
       THEN Basis(nonPrimes[wartIndex(wart) - 16 + 1])
       ELSE IF lenient THEN Basis(ZERO) ELSE BasisTypeError
  ELSE UndefinedBasis

\* A subgroup string: its parts between the dots as Fractions (none for
\* the empty string) and whether it holds a dot
SubgroupString(dotted, parts) == [dotted |-> dotted, parts |-> parts]

isPrime(n) == \E i \in 1..Len(PRIMES) : PRIMES[i] = n

\* PRIMES.indexOf(n), 0-based (-1: absent)
indexOfPrime(n) ==
  IF isPrime(n) THEN (CHOOSE i \in 1..Len(PRIMES) : PRIMES[i] = n) - 1
  ELSE -1

\* the bases of a subgroup that are not primes, in order
RECURSIVE nonPrimesOf(_, _)
nonPrimesOf(subgroup, i) ==
  IF i > Len(subgroup) THEN <<>>
  ELSE IF subgroup[i][2] > 1 \/ ~isPrime(subgroup[i][1])
  THEN <<subgroup[i]>> \o nonPrimesOf(subgroup, i + 1)
  ELSE nonPrimesOf(subgroup, i + 1)

\* parseSubgroup(subgroupString)
parseSubgroup(subgroupString) ==
  IF Len(subgroupString.parts) = 0
  THEN [ok |-> TRUE, err |-> "",
        subgroup |-> [i \in 1..NumberOfComponents |-> Fraction(PRIMES[i], 1)],
        nonPrimes |-> <<>>]
  ELSE IF subgroupString.dotted
  THEN [ok |-> TRUE, err |-> "", subgroup |-> subgroupString.parts,
        nonPrimes |-> nonPrimesOf(subgroupString.parts, 1)]
  ELSE IF indexOfPrime(FFloor(subgroupString.parts[1])) < 0
  THEN [ok |-> FALSE, err |-> "Invalid prime limit", subgroup |-> <<>>,
        nonPrimes |-> <<>>]
  ELSE [ok |-> TRUE, err |-> "",
        subgroup |->
          [i \in 1..(indexOfPrime(FFloor(subgroupString.parts[1])) + 1)
             |-> Fraction(PRIMES[i], 1)],
        nonPrimes |-> <<>>]

\* the loop of lines 69-75: each basis equal to the equave is moved to
\* the front
RECURSIVE unshiftEquave(_, _, _)
unshiftEquave(subgroup, equaveFraction, i) ==
  IF i > Len(subgroup) THEN subgroup
  ELSE IF subgroup[i] = equaveFraction
  THEN unshiftEquave(<<subgroup[i]>> \o SubSeq(subgroup, 1, i - 1)
                       \o SubSeq(subgroup, i + 1, Len(subgroup)),
                     equaveFraction, i + 1)
  ELSE unshiftEquave(subgroup, equaveFraction, i + 1)

\* Math.log of a positive Fraction, in the unit of PRIME_CENTS
logOf(f) == valueToCents(f).q[1]

\* scale * Math.log(f.valueOf()) with scale = edo / Math.log(subgroup[0]):
\* the exact quotient, a Fraction. The double the code computes differs
\* from it by a rounding error whose sign is `noise`.
scaledLog(edo, f, first) == Fraction(edo * logOf(f), logOf(first))

IsInteger(q) == q[2] = 1

\* Math.round of the double next to the exact q
noisyRound(q, noise) ==
  IF noise < 0 /\ IsInteger(FAdd(q, Fraction(1, 2))) THEN FRound(q) - 1
  ELSE FRound(q)

\* scaledLogs[i] - val[i] > 0 for the double next to the exact q
residualPositive(q, v, noise) ==
  \/ FLess(Fraction(v, 1), q)
  \/ q = Fraction(v, 1) /\ noise > 0

\* modification[i] after the loop of lines 82-93
RECURSIVE countWarts(_, _, _, _, _)
countWarts(warts, basis, nonPrimes, lenient, w) ==
  IF w > Len(warts) THEN 0
  ELSE With(wartToBasis(warts[w], nonPrimes, lenient),
            LAMBDA wartFraction:
              (IF wartFraction.defined /\ wartFraction.f # ZERO
                    /\ basis = wartFraction.f
               THEN 1 ELSE 0)
                + countWarts(warts, basis, nonPrimes, lenient, w + 1))

\* no wart letter makes the Fraction constructor throw
RECURSIVE wartsConstructible(_, _, _, _)
wartsConstructible(warts, nonPrimes, lenient, w) ==
  \/ w > Len(warts)
  \/ /\ wartToBasis(warts[w], nonPrimes, lenient).ok
     /\ wartsConstructible(warts, nonPrimes, lenient, w + 1)

\* Math.ceil(m * 0.5)
halfCeil(m) == (m + 1) \div 2

\* The wart correction with the direction of odd and even counts alike
modify_sameDirection(v, residualIsPositive, modification) ==
  IF residualIsPositive THEN v + halfCeil(modification)
  ELSE v - halfCeil(modification)

\* lines 94-104: val[i] after the correction for modification[i] warts
modify(v, residualIsPositive, modification) ==
  With(IF modification % 2 = 0 THEN -halfCeil(modification)
       ELSE halfCeil(modification),
       LAMBDA delta: IF residualIsPositive THEN v + delta ELSE v - delta)

\* the monzo of a positive Fraction on the first n primes
fractionVector(f, n) ==
  [i \in 1..n |-> Multiplicity(PRIMES[i], f[1]) - Multiplicity(PRIMES[i], f[2])]

\* the largest prime index the subgroup needs
RECURSIVE componentsOf(_, _)
componentsOf(subgroup, i) ==
  IF i > Len(subgroup) THEN 0
  ELSE Max(Max(primeLimitIndex(subgroup[i][1], Len(PRIMES)),
               primeLimitIndex(subgroup[i][2], Len(PRIMES))),
           componentsOf(subgroup, i + 1))

SquaredNorm(v) ==
  LET RECURSIVE sum(_)
      sum(i) == IF i = 0 THEN 0 ELSE v[i] * v[i] + sum(i - 1)
  IN  sum(Len(v))

\* lines 106-119: the product of geometricInverse(basis) ^ val[i], the
\* geometric inverse of a vector being the vector over its squared norm
RECURSIVE valVector(_, _, _, _)
valVector(subgroup, val, n, i) ==
  IF i > Len(subgroup) THEN [k \in 1..n |-> ZERO]
  ELSE With(fractionVector(subgroup[i], n),
            LAMBDA basis:
              With(valVector(subgroup, val, n, i + 1),
                   LAMBDA rest:
                     [k \in 1..n |->
                        FAdd(rest[k],
                             Fraction(basis[k] * val[i],
                                      SquaredNorm(basis)))]))

WartsThrown(e) ==
  [ok |-> FALSE, err |-> e, subgroup |-> <<>>, val |-> <<>>,
   vector |-> <<>>]

\* wartsToVal(equave, edo, warts, subgroupString)
wartsToVal(equave, edo, warts, subgroupString, lenient, noise) ==
  With(parseSubgroup(subgroupString),
    LAMBDA parsed:
      IF ~parsed.ok THEN WartsThrown(parsed.err)
      ELSE With(wartToBasis(equave, parsed.nonPrimes, lenient),
        LAMBDA equaveFraction:
          IF ~equaveFraction.ok
               \/ ~wartsConstructible(warts, parsed.nonPrimes, lenient, 1)
          THEN WartsThrown("TypeError")
          ELSE With(IF equaveFraction.defined /\ equaveFraction.f # ZERO
                    THEN unshiftEquave(parsed.subgroup, equaveFraction.f, 1)
                    ELSE parsed.subgroup,
            LAMBDA subgroup:
              With([i \in 1..Len(subgroup) |->
                      modify(noisyRound(scaledLog(edo, subgroup[i],
                                                  subgroup[1]), noise),
                             residualPositive(
                               scaledLog(edo, subgroup[i], subgroup[1]),
                               noisyRound(scaledLog(edo, subgroup[i],
                                                    subgroup[1]), noise),
                               noise),
                             countWarts(warts, subgroup[i],
                                        parsed.nonPrimes, lenient, 1))],
                LAMBDA val:
                  [ok |-> TRUE, err |-> "", subgroup |-> subgroup,
                   val |-> val,
                   vector |-> valVector(subgroup, val,
                                        componentsOf(subgroup, 1), 1)]))))

EquaveLetters == {"", "b", "p", "q"}

WartLetters == {"a", "c", "p", "q"}

Edos == {12, 17}

\* the subgroup strings '', '5', '4', '2.3.7' and '2.9.5'
SubgroupStrings ==
  { SubgroupString(FALSE, <<>>),
    SubgroupString(FALSE, <<Fraction(5, 1)>>),
    SubgroupString(FALSE, <<Fraction(4, 1)>>),
    SubgroupString(TRUE, <<Fraction(2, 1), Fraction(3, 1), Fraction(7, 1)>>),
    SubgroupString(TRUE, <<Fraction(2, 1), Fraction(9, 1), Fraction(5, 1)>>) }

RECURSIVE WartLists(_)
WartLists(n) ==
  IF n = 0 THEN {<<>>}
  ELSE WartLists(n - 1)
         \cup {Append(ws, w) : ws \in WartLists(n - 1), w \in WartLetters}

WInit == QIdle /\ PIdle /\ CIdle /\ MIdle /\ XIdle /\ DIdle /\ GIdle /\ WIdle /\ SIdle /\ UIdle

\* one call of wartsToVal
WartsToVal(equave, edo, warts, subgroupString, lenient, noise) ==
  /\ wargs = NoWarts
  /\ wargs' = [equave |-> equave, edo |-> edo, warts |-> warts,
               subgroupString |-> subgroupString, lenient |-> lenient,
               noise |-> noise]
  /\ wres' = wartsToVal(equave, edo, warts, subgroupString, lenient, noise)
  /\ UNCHANGED <<qvars, pvars, cvars, mvars, xvars, dvars, gvars, svars,
                 uvars>>

WNext ==
  \E equave \in EquaveLetters, edo \in Edos, warts \in WartLists(MaxWarts),
     subgroupString \in SubgroupStrings, lenient \in BOOLEAN,
     noise \in {-1, 0, 1} :
    WartsToVal(equave, edo, warts, subgroupString, lenient, noise)

WSpec == WInit /\ [][WNext]_vars


\* ---------------------------------------------------- SSpec: the Scale
\* A Scale: its intervals, its equave and its base frequency. An interval
\* is kept as its monzo; its type, name and options do not enter here.
Scale(intervals, equave, baseFrequency) ==
  [intervals |-> intervals, equave |-> equave,
   baseFrequency |-> baseFrequency]

ScaleOk(scale) == [ok |-> TRUE, err |-> "", scale |-> scale]

ScaleThrow(e) == [ok |-> FALSE, err |-> e, scale |-> NoScale]

\* a.compare(b) < 0, <= 0 for finite sizes
ComparesLess(a, b) ==
  FLess(ExtendedMonzo_totalCents(a).q, ExtendedMonzo_totalCents(b).q)

\* the place sort gives x among the sorted xs: behind what compares equal
RECURSIVE insertSorted(_, _)
insertSorted(xs, x) ==
  IF xs = <<>> THEN <<x>>
  ELSE IF ComparesLess(x, xs[1]) THEN <<x>> \o xs
  ELSE <<xs[1]>> \o insertSorted(Tail(xs), x)

\* intervals.sort((a, b) => a.compare(b)), a stable sort
RECURSIVE sortIntervals(_, _)
sortIntervals(intervals, n) ==
  IF n = 0 THEN <<>>
  ELSE insertSorted(sortIntervals(intervals, n - 1), intervals[n])

\* sortInPlace()
Scale_sortInPlace(this) ==
  [this EXCEPT !.intervals = sortIntervals(this.intervals,
                                           Len(this.intervals))]

\* the intervals repeat(numRepeats) pushes for the repeats from i on
RECURSIVE repeatFrom(_, _, _)
repeatFrom(this, i, numRepeats) ==
  IF ~(i < numRepeats) THEN <<>>
  ELSE [k \in 1..Len(this.intervals) |->
          ExtendedMonzo_add(
            this.intervals[k],
            ExtendedMonzo_mul(this.equave, Fraction(i, 1)).m).m]
         \o repeatFrom(this, i + 1, numRepeats)

\* repeat(numRepeats) of a scale with at least one interval when
\* numRepeats is 0
Scale_repeat(this, numRepeats) ==
  IF numRepeats = 0
  THEN Scale(<<this.intervals[1]>>,
             ExtendedMonzo_mul(this.equave, ZERO).m, this.baseFrequency)
  ELSE Scale(this.intervals \o repeatFrom(this, 1, numRepeats),
             ExtendedMonzo_mul(this.equave, Fraction(numRepeats, 1)).m,
             this.baseFrequency)

\* the loop of fromRank2 from i on: generator.mul(i - down).mmod(period)
RECURSIVE stack(_, _, _, _, _)
stack(generator, period, size, down, i) ==
  IF ~(i < size) THEN [ok |-> TRUE, err |-> "", intervals |-> <<>>]
  ELSE With(Interval_mmod(
              ExtendedMonzo_mul(generator, Fraction(i - down, 1)).m, period),
            LAMBDA interval:
              IF ~interval.ok
              THEN [ok |-> FALSE, err |-> interval.err, intervals |-> <<>>]
              ELSE With(stack(generator, period, size, down, i + 1),
                        LAMBDA rest:
                          IF ~rest.ok THEN rest
                          ELSE [rest EXCEPT !.intervals =
                                              <<interval.m>> \o @]))

\* static fromRank2(generator, period, size, down, numPeriods,
\* baseFrequency), for numPeriods > 0
Scale_fromRank2(generator, period, size, down, numPeriods, baseFrequency) ==
  IF down < 0 THEN ScaleThrow("Down must be non-negative")
  ELSE IF down > size THEN ScaleThrow("Down must be less than size")
  ELSE IF size % numPeriods # 0
  THEN ScaleThrow("Size must be a multiple of the number of periods")
  ELSE IF down % numPeriods # 0
  THEN ScaleThrow("Down must be a multiple of the number of periods")
  ELSE With(stack(generator, period, size \div numPeriods,
                  down \div numPeriods, 0),
            LAMBDA stacked:
              IF ~stacked.ok THEN ScaleThrow(stacked.err)
              ELSE ScaleOk(Scale_repeat(
                     Scale_sortInPlace(Scale(stacked.intervals, period,
                                             baseFrequency)),
                     numPeriods)))

\* Frequencies are doubles. The scales whose frequencies are taken hold
\* intervals that are cents offsets, multiples of 600 cents, so that
\* centsToValue is a power of 2 to an integer or to an integer and a half.
\* Longest range taken.
MaxSpan == 3

\* the doubles next to the square root of 2: 0x1.6a09e667f3bccp+0 below
\* and 0x1.6a09e667f3bcdp+0 above
SQRT2_BELOW ==
  Double(1, <<1, 6, 10, 0, 9, 14, 6, 6, 7, 15, 3, 11, 12, 12>>, -52)

SQRT2_ABOVE ==
  Double(1, <<1, 6, 10, 0, 9, 14, 6, 6, 7, 15, 3, 11, 12, 13>>, -52)

\* the double of an integer below 2^15 in magnitude, and back
IntToDouble(n) == IF n = 0 THEN DZero ELSE Normal(Sign(n), <<Abs(n)>>, 0)

DoubleToInt(a) ==
  IF a = DZero THEN 0 ELSE a.sign * Digit(ShiftRight(a.m, -a.e))

\* sign * m * 2^e (and, when sticky, a little more in magnitude) as a
\* double: itself when it is one, else the neighbour above or below
FaithfulRound(sign, m, e, sticky, up) ==
  IF BitLength(m) <= SIGNIFICAND THEN Normal(sign, m, e)
  ELSE With(BitLength(m) - SIGNIFICAND,
            LAMBDA dropped:
              IF (sticky \/ ~LowBitsZero(m, dropped)) /\ up
              THEN Normal(sign, BigAdd(ShiftRight(m, dropped), <<1>>, 0),
                          e + dropped)
              ELSE Normal(sign, ShiftRight(m, dropped), e + dropped))

RECURSIVE BigPow(_, _)
BigPow(m, n) == IF n = 0 THEN <<1>> ELSE BigMul(m, BigPow(m, n - 1))

\* base ** exponent for a positive base and an integer exponent
powInteger(base, exponent, platform) ==
  IF exponent = 0 THEN IntToDouble(1)
  ELSE IF exponent = 1 THEN base
  ELSE IF exponent > 0
  THEN FaithfulRound(1, BigPow(base.m, exponent), base.e * exponent, FALSE,
                     platform.power)
  ELSE With(BigPow(base.m, -exponent),
            LAMBDA power:
              With(BigDiv(ShiftLeft(<<1>>,
                                    BitLength(power) + SIGNIFICAND + 3),
                          power),
                   LAMBDA quotient:
                     FaithfulRound(1, quotient.q,
                                   base.e * exponent
                                     - (BitLength(power) + SIGNIFICAND + 3),
                                   quotient.r # <<>>, platform.power)))

\* centsToValue(cents): Math.pow(2, cents / 1200), for cents a multiple
\* of 600
centsToValue(cents, platform) ==
  With(dblDiv(cents, IntToDouble(1200)),
       LAMBDA octaves:
         IF dblFloor(octaves) = octaves
         THEN Normal(1, <<1>>, DoubleToInt(octaves))
         ELSE With(DoubleToInt(dblFloor(octaves)),
                   LAMBDA k:
                     IF platform.half[k]
                     THEN [SQRT2_ABOVE EXCEPT !.e = @ + k]
                     ELSE [SQRT2_BELOW EXCEPT !.e = @ + k]))

\* valueOf()
CentsMonzo_valueOf(this, platform) ==
  centsToValue(CentsMonzo_totalCents(this), platform)

\* getMonzo(index); Math.floor(index / this.size) is the floored quotient
\* of the two integers
Scale_getMonzo(this, index) ==
  With(index \div Len(this.intervals),
       LAMBDA numEquaves:
         CentsMonzo_add(
           this.intervals[index - numEquaves * Len(this.intervals) + 1],
           CentsMonzo_mul(this.equave, IntToDouble(numEquaves))))

\* getFrequency(index)
Scale_getFrequency(this, index, platform) ==
  dblMul(this.baseFrequency,
         CentsMonzo_valueOf(Scale_getMonzo(this, index), platform))

\* the loop of getFrequencyRange from i on
RECURSIVE rangeLoop(_, _, _, _, _, _)
rangeLoop(values, equaveValue, referenceFrequency, index, i, end) ==
  IF ~(i < end) THEN <<>>
  ELSE <<dblMul(referenceFrequency, values[index + 1])>>
         \o (IF index + 1 >= Len(values)
             THEN rangeLoop(values, equaveValue,
                            dblMul(referenceFrequency, equaveValue),
                            index + 1 - Len(values), i + 1, end)
             ELSE rangeLoop(values, equaveValue, referenceFrequency,
                            index + 1, i + 1, end))

\* getFrequencyRange(start, end)
Scale_getFrequencyRange(this, start, end, platform) ==
  With([values |-> [k \in 1..Len(this.intervals) |->
                      CentsMonzo_valueOf(this.intervals[k], platform)],
        equaveValue |-> CentsMonzo_valueOf(this.equave, platform),
        numEquaves |-> start \div Len(this.intervals)],
       LAMBDA local:
         rangeLoop(local.values, local.equaveValue,
                   dblMul(this.baseFrequency,
                          powInteger(local.equaveValue, local.numEquaves,
                                     platform)),
                   start - local.numEquaves * Len(this.intervals),
                   start, end))

\* the scale of the given cents offsets
CentsScale(cents, equave, baseFrequency) ==
  Scale([k \in 1..Len(cents) |-> CentsMonzo(IntToDouble(cents[k]))],
        CentsMonzo(IntToDouble(equave)), IntToDouble(baseFrequency))

\* the unison in an equave of 600 cents, the unison and 600 cents in an
\* octave, the unison and the octave in two octaves
CentsScales ==
  { CentsScale(<<0>>, 600, 440), CentsScale(<<0, 600>>, 1200, 440),
    CentsScale(<<0, 600>>, 1200, 1), CentsScale(<<0, 1200>>, 2400, 440) }

\* Largest size handed to fromRank2.
MaxSize == 4

\* the fifth 3/2 and 700 cents
Generators ==
  { ExtendedMonzo_fromFraction(Fraction(3, 2), 2).m,
    ExtendedMonzo_fromCents(Finite(Fraction(7000000, 1)), 2).m }

\* the octave, the tritone 1\2 and the unison
Periods ==
  { ExtendedMonzo_fromFraction(Fraction(2, 1), 2).m,
    ExtendedMonzo_fromEqualTemperament(Fraction(1, 2), Fraction(2, 1)).m,
    ExtendedMonzo_fromFraction(ONE, 2).m }

SInit ==
  /\ QIdle /\ PIdle /\ CIdle /\ MIdle /\ XIdle /\ DIdle /\ GIdle /\ WIdle
  /\ UIdle
  /\ splatform \in Platforms
  /\ sop = "idle"
  /\ sargs = NoScaleArgs
  /\ sres = NoScaleResult

\* one call of Scale.fromRank2
FromRank2(generator, period, size, down, numPeriods) ==
  /\ sop = "idle"
  /\ sop' = "fromRank2"
  /\ sargs' = [NoScaleArgs EXCEPT !.generator = generator,
                                  !.period = period, !.size = size,
                                  !.down = down, !.numPeriods = numPeriods]
  /\ sres' = [NoScaleResult EXCEPT
                !.made = Scale_fromRank2(generator, period, size, down,
                                         numPeriods, 440)]
  /\ UNCHANGED <<splatform, qvars, pvars, cvars, mvars, xvars, dvars, gvars,
                 wvars, uvars>>

\* one call of getFrequencyRange
GetFrequencyRange(scale, start, end) ==
  /\ sop = "idle"
  /\ sop' = "getFrequencyRange"
  /\ sargs' = [NoScaleArgs EXCEPT !.scale = scale, !.start = start,
                                  !.end = end]
  /\ sres' = [NoScaleResult EXCEPT
                !.range = Scale_getFrequencyRange(scale, start, end,
                                                  splatform)]
  /\ UNCHANGED <<splatform, qvars, pvars, cvars, mvars, xvars, dvars, gvars,
                 wvars, uvars>>

SNext ==
  \/ \E scale \in CentsScales, start \in -3..2, span \in 0..MaxSpan :
       GetFrequencyRange(scale, start, start + span)
  \/ \E generator \in Generators, period \in Periods, size \in 0..MaxSize,
        down \in -1..(MaxSize + 1), numPeriods \in {1, 2} :
       FromRank2(generator, period, size, down, numPeriods)

SSpec == SInit /\ [][SNext]_vars

\* ------------------------------- USpec: removeDuplicatesInPlace and merge
\* Longest array of intervals handed to removeDuplicatesInPlace.
MaxIntervals == 4

\* ExtendedMonzo.strictEquals(other): the same vector, residual and cents
\* offset
ExtendedMonzo_strictEquals(this, other) ==
  /\ this.vector = other.vector
  /\ this.residual = other.residual
  /\ this.cents = other.cents

\* Interval.strictEquals(other), on the monzos of the two intervals
Interval_strictEquals(this, other) == ExtendedMonzo_strictEquals(this, other)

\* intervals.splice(i, 1), i counted from 0
splice(intervals, i) ==
  [k \in 1..(Len(intervals) - 1) |->
     IF k <= i THEN intervals[k] ELSE intervals[k + 1]]

\* removeDuplicatesInPlace with i-- left out after the splice
removeDuplicatesStep_noDecrement(intervals, i, j) ==
  IF ~(i < Len(intervals))
  THEN [intervals |-> intervals, i |-> i, j |-> j, done |-> TRUE]
  ELSE IF j < i
  THEN IF Interval_strictEquals(intervals[i + 1], intervals[j + 1])
       THEN [intervals |-> splice(intervals, i), i |-> i + 1, j |-> 0,
             done |-> FALSE]
       ELSE [intervals |-> intervals, i |-> i, j |-> j + 1, done |-> FALSE]
  ELSE [intervals |-> intervals, i |-> i + 1, j |-> 0, done |-> FALSE]

\* One step of removeDuplicatesInPlace with the array, i and j as they
\* are (i and j counted from 0): the test of the while loop when it fails,
\* else one pass of the for loop, or i++ once the for loop is over. After
\* the splice, i-- and the i++ behind the for loop leave i as it was.
removeDuplicatesStep(intervals, i, j) ==
  IF ~(i < Len(intervals))
  THEN [intervals |-> intervals, i |-> i, j |-> j, done |-> TRUE]
  ELSE IF j < i
  THEN IF Interval_strictEquals(intervals[i + 1], intervals[j + 1])
       THEN [intervals |-> splice(intervals, i), i |-> (i - 1) + 1, j |-> 0,
             done |-> FALSE]
       ELSE [intervals |-> intervals, i |-> i, j |-> j + 1, done |-> FALSE]
  ELSE [intervals |-> intervals, i |-> i + 1, j |-> 0, done |-> FALSE]

\* concat(other)
Scale_concat(this, other) ==
  IF this.baseFrequency # other.baseFrequency
  THEN ScaleThrow("Base frequencies must match when concatenating")
  ELSE IF ~Interval_strictEquals(this.equave, other.equave)
  THEN ScaleThrow("Equaves must match when concatenating")
  ELSE ScaleOk(Scale(this.intervals \o other.intervals, this.equave,
                     this.baseFrequency))

\* reduce()
Scale_reduce(this) ==
  With([k \in 1..Len(this.intervals) |->
          Interval_mmod(this.intervals[k], this.equave)],
       LAMBDA reduced:
         IF \E k \in 1..Len(reduced) : ~reduced[k].ok
         THEN ScaleThrow(
                reduced[CHOOSE k \in 1..Len(reduced) :
                          /\ ~reduced[k].ok
                          /\ \A l \in 1..(k - 1) : reduced[l].ok].err)
         ELSE ScaleOk(Scale([k \in 1..Len(reduced) |-> reduced[k].m],
                            this.equave, this.baseFrequency)))

\* the unison, the fifth 3/2, the octave 2/1 and 1200 cents: the last two
\* are of equal size and not strictly equal
DedupIntervals ==
  { ExtendedMonzo_fromFraction(ONE, 2).m,
    ExtendedMonzo_fromFraction(Fraction(3, 2), 2).m,
    ExtendedMonzo_fromFraction(Fraction(2, 1), 2).m,
    ExtendedMonzo_fromCents(Finite(Fraction(12000000, 1)), 2).m }

\* every array of at most n of these intervals
RECURSIVE IntervalArrays(_)
IntervalArrays(n) ==
  IF n = 0 THEN {<<>>}
  ELSE IntervalArrays(n - 1)
         \cup [1..n -> DedupIntervals]

\* the scales merged: arrays of at most two intervals in the octave, in
\* the equave of 1200 cents or in the equave 1/1, over 440 Hz or 432 Hz
MergedScales ==
  { Scale(intervals, equave, baseFrequency) :
      intervals \in IntervalArrays(2),
      equave \in { ExtendedMonzo_fromFraction(Fraction(2, 1), 2).m,
                   ExtendedMonzo_fromCents(Finite(Fraction(12000000, 1)),
                                           2).m,
                   ExtendedMonzo_fromFraction(ONE, 2).m },
      baseFrequency \in {440} }
    \cup { Scale(<<ExtendedMonzo_fromFraction(ONE, 2).m>>,
                 ExtendedMonzo_fromFraction(Fraction(2, 1), 2).m, 432) }

UInit ==
  /\ QIdle /\ PIdle /\ CIdle /\ MIdle /\ XIdle /\ DIdle /\ GIdle /\ WIdle
  /\ SIdle /\ UIdle

\* a call of removeDuplicatesInPlace on a scale of these intervals, up to
\* the first test of the while loop
RemoveDuplicatesInPlace(intervals) ==
  /\ upc = "idle"
  /\ upc' = "looping"
  /\ ucall' = [method |-> "removeDuplicatesInPlace", err |-> "",
               intervals |-> intervals]
  /\ uintervals' = intervals
  /\ ui' = 1
  /\ uj' = 0
  /\ UNCHANGED <<qvars, pvars, cvars, mvars, xvars, dvars, gvars, wvars,
                 svars>>

\* a call of this.merge(other), up to the first test of the while loop of
\* removeDuplicatesInPlace, or up to what concat or reduce throws
Merge(this, other) ==
  /\ upc = "idle"
  /\ \E concatenated \in {Scale_concat(this, other)} :
     \E reduced \in {IF concatenated.ok THEN Scale_reduce(concatenated.scale)
                     ELSE concatenated} :
       /\ upc' = IF reduced.ok THEN "looping" ELSE "thrown"
       /\ ucall' = [method |-> "merge", err |-> reduced.err,
                    intervals |-> reduced.scale.intervals]
       /\ uintervals' = reduced.scale.intervals
       /\ ui' = IF reduced.ok THEN 1 ELSE 0
       /\ uj' = 0
  /\ UNCHANGED <<qvars, pvars, cvars, mvars, xvars, dvars, gvars, wvars,
                 svars>>

\* one step of the loop; when the while loop is over,
\* removeDuplicatesInPlace returns, to its caller or into merge
UStep ==
  /\ upc = "looping"
  /\ \E s \in {removeDuplicatesStep(uintervals, ui, uj)} :
       /\ uintervals' = s.intervals
       /\ ui' = s.i
       /\ uj' = s.j
       /\ upc' = IF ~s.done THEN "looping"
                 ELSE IF ucall.method = "merge" THEN "deduplicated"
                 ELSE "returned"
  /\ UNCHANGED <<ucall, qvars, pvars, cvars, mvars, xvars, dvars, gvars,
                 wvars, svars>>

\* the rest of merge: sortInPlace() on what removeDuplicatesInPlace
\* returned, and the return
MergeSort ==
  /\ upc = "deduplicated"
  /\ upc' = "returned"
  /\ uintervals' = sortIntervals(uintervals, Len(uintervals))
  /\ UNCHANGED <<ui, uj, ucall, qvars, pvars, cvars, mvars, xvars, dvars,
                 gvars, wvars, svars>>

UNext ==
  \/ \E intervals \in IntervalArrays(MaxIntervals) :
       RemoveDuplicatesInPlace(intervals)
  \/ \E this \in MergedScales, other \in MergedScales : Merge(this, other)
  \/ UStep
  \/ MergeSort

USpec == UInit /\ [][UNext]_vars

\* The caller's thread keeps running: a step of the loop that can be taken
\* is taken
USpecFair == USpec /\ WF_vars(UStep)


WellFormed(q) == (q.domain = "scalar") <=> (q.exponent = ZERO)

\* C1: every Quantity the operations leave behind has domain 'scalar' iff
\* its exponent is 0; the constructor forces 'scalar' on exponent 0 and
\* throws for 'scalar' with a nonzero exponent.
C1_ScalarIffExponentZero ==
  /\ WellFormed(qa)
  /\ WellFormed(qb)
  /\ qres.ok => WellFormed(qres.q)
  /\ qop = "construct" /\ qargs[1].exponent = ZERO
       => qres.ok /\ qres.q.domain = "scalar"
  /\ qop = "construct" /\ qargs[1].domain = "scalar"
       /\ qargs[1].exponent # ZERO
       => ~qres.ok

\* a time quantity times a time quantity whose exponents cancel
C1_Witness ==
  /\ qop = "mul"
  /\ qargs[1].domain = "time"
  /\ qargs[2].domain = "time"
  /\ qres.ok
  /\ qres.q.exponent = ZERO
  /\ qres.q.domain = "scalar"

\* C2: add, sub and mod succeed only on operands of one domain and one
\* exponent, and then return that domain and exponent.
C2_AddSubModSameUnit ==
  qop \in {"add", "sub", "mod"} =>
    IF qargs[1].domain = qargs[2].domain
         /\ qargs[1].exponent = qargs[2].exponent
    THEN qres.ok =>
           /\ qres.q.domain = qargs[1].domain
           /\ qres.q.exponent = qargs[1].exponent
    ELSE ~qres.ok

\* a successful subtraction in the time domain
C2_Witness ==
  /\ qop = "sub"
  /\ qres.ok
  /\ qargs[1].domain = "time"
  /\ qres.q.domain = "time"

PitchPair == qargs[1].domain = "pitch" /\ qargs[2].domain = "pitch"

\* C3 as stated: pitch * pitch with the same nonzero exponent is legal and
\* returns a scalar.
C3_SameExponentDotProduct ==
  (qop = "mul" /\ PitchPair /\ qargs[1].exponent = qargs[2].exponent)
    => (qres.ok /\ qres.q.domain = "scalar" /\ qres.q.exponent = ZERO)

\* C3 amended: pitch * pitch is legal exactly when the two exponents add to
\* zero (a val times an interval), and then returns the dot product of the
\* two vectors as a scalar; with equal exponents mul throws.
C3_OppositeExponentDotProduct ==
  (qop = "mul" /\ PitchPair) =>
    IF FAdd(qargs[1].exponent, qargs[2].exponent) = ZERO
    THEN /\ qres.ok
         /\ qres.q.domain = "scalar"
         /\ qres.q.exponent = ZERO
         /\ isFractional(qres.q.value)
         /\ toFraction(qres.q.value) = dot(qargs[1].value, qargs[2].value)
    ELSE ~qres.ok /\ qres.err = "DotProductExponents"

\* the val <2 3] applied to the fifth [-1 1> gives 1 step
C3_Witness ==
  /\ qop = "mul"
  /\ PitchPair
  /\ qargs[1].exponent = NEGATIVE_ONE
  /\ qargs[2].exponent = ONE
  /\ qres.ok
  /\ qres.q.domain = "scalar"
  /\ toFraction(qres.q.value) = ONE

\* ------------------------------------------------- claims about parseLines
Evaluated == lineNo >= 1

LastAst == LINES[lastLine]

DimensionalErrors ==
  {"DomainMismatch", "ExponentMismatch", "IncompatibleDomains",
   "CannotExponentiatePitch"}

\* C4 as stated: when evaluating a line fails with a dimensional type error
\* the context is exactly what it was before that evaluation started.
C4_FailedLineLeavesContext ==
  (Evaluated /\ ~lastOutput.ok /\ lastOutput.err \in DimensionalErrors)
    => ctxAfterEval = ctxBefore

DegreesPresent(ctx, n) == \A i \in 0..(n - 1) : toString(i) \in DOMAIN ctx

\* C5: each line is evaluated with '#' holding the number of degrees
\* appended so far and '##' holding baseMidiNote plus that number, the
\* degrees sit under '0' .. '#'-1 with none missing, and when parseLines
\* returns '#' and '##' hold the values of the final degree count.
C5_SizeKeysRefreshed ==
  /\ Evaluated =>
       /\ ctxBefore["#"] = int(numBefore)
       /\ ctxBefore["##"] = int(baseMidiNote + numBefore)
       /\ DegreesPresent(ctxBefore, numBefore)
  /\ status = "done" =>
       /\ context["#"] = int(numQuantities)
       /\ context["##"] = int(baseMidiNote + numQuantities)
       /\ DegreesPresent(context, numQuantities)

\* the third line of an input is evaluated with two degrees appended
C5_Witness ==
  /\ lineNo = 3
  /\ numBefore = 2
  /\ ctxBefore["#"] = int(2)
  /\ ctxBefore["##"] = int(baseMidiNote + 2)
  /\ {"0", "1"} \subseteq DOMAIN ctxBefore

\* the line consumed last returned a val
ValLine ==
  /\ Evaluated
  /\ lastOutput.ok
  /\ lastOutput.out.has
  /\ lastOutput.out.q.domain = "pitch"
  /\ lastOutput.out.q.exponent = NEGATIVE_ONE

\* the line consumed last returned a quantity that is not a val
AppendLine ==
  /\ Evaluated
  /\ lastOutput.ok
  /\ lastOutput.out.has
  /\ ~(lastOutput.out.q.domain = "pitch"
         /\ lastOutput.out.q.exponent = NEGATIVE_ONE)

\* the val's step of the octave, taken as many times as the val maps the
\* degree q to
TemperedDegree(val, q, base) ==
  [value |-> fromEqualTemperament(
               FDiv(dot(val.value, pitch(q, base).q.value),
                    val.value.vector[1]),
               Fraction(2, 1)),
   domain |-> "pitch",
   exponent |-> ONE]

MapLine == Evaluated /\ LastAst.type = "MapDeclaration"

\* the keys of degrees 1 .. n-1
Degrees(n) == {toString(i) : i \in 1..(n - 1)}

\* the context degree i of a map declaration is re-evaluated in: the
\* degrees below i already replaced, `$` bound to the prior value of i
MapContext(i) ==
  [k \in DOMAIN ctxBefore \cup {""} |->
     IF k = "" THEN ctxBefore[toString(i)]
     ELSE IF k \in Degrees(i) THEN ctxAfterEval[k]
     ELSE ctxBefore[k]]

\* C7: a map declaration in a context of size n replaces each degree
\* 1 .. n-1, in increasing order, by its right-hand side evaluated with `$`
\* bound to the degree's prior value; it returns nothing and leaves degree
\* 0, '#' and every named variable as they were.
C7_MapDeclarationRewritesDegrees ==
  (MapLine /\ lastOutput.ok) =>
    /\ ~lastOutput.out.has
    /\ DOMAIN ctxAfterEval \ {""} = DOMAIN ctxBefore \ {""}
    /\ \A k \in DOMAIN ctxBefore \ ({""} \cup Degrees(numBefore)) :
         ctxAfterEval[k] = ctxBefore[k]
    /\ \A i \in 1..(numBefore - 1) :
         /\ evaluateExpression(LastAst.value, MapContext(i)).ok
         /\ ctxAfterEval[toString(i)] =
              evaluateExpression(LastAst.value, MapContext(i)).q

\* Hz, P5, P5, `= $ + P5`: both fifths are raised, the base stays
C7_Witness ==
  /\ MapLine
  /\ lastOutput.ok
  /\ numBefore = 3
  /\ ctxAfterEval["0"] = ctxBefore["0"]
  /\ ctxAfterEval["1"] # ctxBefore["1"]
  /\ ctxAfterEval["2"] # ctxBefore["2"]

\* C8 as stated: a pitch assignment on any line after the first makes
\* parseLines throw.
C8_LaterPitchAssignmentThrows ==
  (lineNo >= 2 /\ LastAst.type = "PitchAssignment") => status = "failed"

\* what a variable access must answer for the key it resolves to
Resolves(key, answer) ==
  IF key \in DOMAIN ctxBefore
  THEN answer.ok /\ answer.q = ctxBefore[key]
  ELSE ~answer.ok /\ answer.err = "UnboundVariable"

LastAnswer ==
  [ok |-> lastOutput.ok, q |-> lastOutput.out.q, err |-> lastOutput.err]

\* C9: `$-k` in a context of size n answers the quantity at degree n-k, so
\* `$-1` is the degree appended last; an access whose resolved key is absent
\* throws.
C9_NegativeIndexIsRelative ==
  /\ (Evaluated /\ LastAst.type = "VariableAccess") =>
       Resolves(IF LastAst.name = "-2" THEN toString(numBefore - 2)
                ELSE LastAst.name,
                LastAnswer)
  /\ (Evaluated /\ lastLine = 4) =>
       IF toString(numBefore - 1) \in DOMAIN ctxBefore
       THEN /\ lastOutput.ok =
                 Quantity_add(ctxBefore[toString(numBefore - 1)],
                              evaluateExpression(LastAst.right, ctxBefore).q).ok
            /\ lastOutput.ok =>
                 lastOutput.out.q =
                   Quantity_add(ctxBefore[toString(numBefore - 1)],
                                evaluateExpression(LastAst.right,
                                                   ctxBefore).q).q
       ELSE ~lastOutput.ok /\ lastOutput.err = "UnboundVariable"

\* Hz, P5, 3, `$-2`: the access answers degree 1, the fifth
C9_Witness ==
  /\ Evaluated
  /\ LastAst.type = "VariableAccess"
  /\ LastAst.name = "-2"
  /\ numBefore = 3
  /\ lastOutput.ok
  /\ lastOutput.out.q = ctxBefore["1"]
  /\ ctxBefore["1"] # ctxBefore["2"]

PlainLine ==
  /\ Evaluated
  /\ LastAst.type \notin
       {"VariableDeclaration", "MapDeclaration", "PitchAssignment"}

\* C10: evaluating an AST that is not a variable declaration, a map
\* declaration or a pitch assignment leaves the context as it was, whether
\* the evaluation returns or throws.
C10_ExpressionsLeaveContext == PlainLine => ctxAfterEval = ctxBefore

\* an expression over two degrees that throws
C10_Witness ==
  /\ PlainLine
  /\ LastAst.type = "BinaryExpression"
  /\ ~lastOutput.ok
  /\ numBefore = 2
  /\ ctxAfterEval = ctxBefore

\* the absolute value of a pitch node: its Pythagorean vector
AbsoluteValue(node) ==
  absoluteToJustIntonation(node.nominal, node.accidentals, node.octave)

\* the interval from the pitch node P to the pitch node Q
IntervalBetween(P, Q) ==
  monzoMul(AbsoluteValue(Q), monzoInverse(AbsoluteValue(P)))

\* C11 as stated: once a pitch assignment `P = expr` has been evaluated on
\* the context, an absolute pitch Q evaluates to the interval from P to Q
\* and P itself to unison; with no '#root' Q is taken relative to unison.
C11_AbsolutePitchRelativeToAssigned ==
  /\ (Evaluated /\ LastAst.type = "AbsoluteFJS") =>
       /\ lastOutput.ok
       /\ lastOutput.out.q.domain = "pitch"
       /\ sameValue(lastOutput.out.q.value,
                    IF "#root" \in DOMAIN ctxBefore
                    THEN IntervalBetween(assigned, LastAst)
                    ELSE AbsoluteValue(LastAst))
  /\ (Evaluated /\ LastAst.type = "PitchAssignment" /\ lastOutput.ok) =>
       /\ evaluateExpression(LastAst.pitch, ctxAfterEval).ok
       /\ isUnison(evaluateExpression(LastAst.pitch, ctxAfterEval).q.value)

IsPrefix(s, t) == Len(s) <= Len(t) /\ SubSeq(t, 1, Len(s)) = s

\* What the calls logged so far answered
CommaAnswers ==
  /\ \A i, j \in 1..Len(commaLog) :
       (commaLog[i].which = commaLog[j].which
          /\ commaLog[i].index = commaLog[j].index)
       => commaLog[i] = commaLog[j]
  /\ \A i \in 1..Len(commaLog) :
       IF commaLog[i].index >= Len(PRIME_CENTS)
       THEN ~commaLog[i].ok /\ commaLog[i].err = "OutOfPrimes"
       ELSE commaLog[i].ok
  /\ \A i \in 1..Len(formalCommas) :
       \A j \in 1..Len(commaLog) :
         (commaLog[j].which = "formal" /\ commaLog[j].index = i - 1)
         => commaLog[j].value = formalCommas[i]
  /\ \A i \in 1..Len(neutralCommas) :
       \A j \in 1..Len(commaLog) :
         (commaLog[j].which = "neutral" /\ commaLog[j].index = i - 1)
         => commaLog[j].value = neutralCommas[i]

\* What the last call did to the two caches
CommaCachesGrow ==
  /\ IsPrefix(commasBefore.formalCommas, formalCommas)
  /\ IsPrefix(commasBefore.neutralCommas, neutralCommas)
  /\ commaCall.which = "formal" =>
       /\ neutralCommas = commasBefore.neutralCommas
       /\ neutralIterator = commasBefore.neutralIterator
  /\ commaCall.which = "neutral" =>
       /\ formalCommas = commasBefore.formalCommas
       /\ formalIterator = commasBefore.formalIterator

\* C12: in any sequence of getFormalComma and getNeutralComma calls, two
\* calls of the same function with the same index return the identical
\* value whatever was requested in between; a call at an index at or beyond
\* the end of the prime table throws 'Out of primes' and every other call
\* returns the cached entry; each call leaves both caches extended by
\* appending only, and leaves the other function's cache and generator as
\* they were.
C12_CommaCachesAreStable == CommaAnswers /\ CommaCachesGrow

\* The same formal comma was asked for twice, the second time after the
\* neutral cache had been extended past it
C12_Witness ==
  /\ Len(commaLog) = 3
  /\ commaLog[1].which = "formal" /\ commaLog[1].index = 3
  /\ commaLog[2].which = "neutral" /\ commaLog[2].index = 7
  /\ commaLog[3].which = "formal" /\ commaLog[3].index = 3
  /\ commaLog[3].ok
  /\ commaLog[3].value # UNISON
  /\ Len(neutralCommas) = 8
  /\ Len(formalCommas) = 4

\* C13: the formal comma search terminates for every prime of the table:
\* a call of masterAlgorithm that has entered its loop returns after
\* finitely many fifths, and the count k it returns is one whose k fifths lie
\* within RADIUS_OF_TOLERANCE of the prime, octaves folded away.
C13_MasterAlgorithmTerminates ==
  /\ (mStatus = "searching") ~> (mStatus = "returned")
  /\ [](mStatus = "returned" =>
          /\ Abs(mResult) = mK
          /\ distance(PRIME_CENTS[mPrime], mResult * FIFTH)
               < RADIUS_OF_TOLERANCE)

\* The search for the comma of 23 has returned after six fifths
C13_Witness ==
  /\ mStatus = "returned"
  /\ mPrime = 9
  /\ mResult = 6
  /\ mPythagoras = 6 * FIFTH

\* b is what a.neg() returned
IsNegOf(b, a) == ExtendedMonzo_neg(a).ok /\ b = ExtendedMonzo_neg(a).m

\* every vector component is 0, the residual is 1 and the cents offset is
\* 0, and totalCents() is 0
IsUnisonMonzo(m) ==
  /\ \A i \in 1..Len(m.vector) : m.vector[i] = ZERO
  /\ m.residual = ONE
  /\ m.cents = Finite(ZERO)
  /\ ExtendedMonzo_totalCents(m) = Finite(ZERO)

\* C14 as stated: for every ExtendedMonzo x, x.neg() returns and
\* x.add(x.neg()) returns the unison: every vector component 0, residual 1,
\* cents offset 0, totalCents() 0.
C14_AddNegIsUnison ==
  /\ xop = "neg" => xres.ok
  /\ (xop = "add" /\ IsNegOf(xargs.b, xargs.a)) =>
       xres.ok /\ IsUnisonMonzo(xres.m)

\* a finite cents offset and a residual other than 0
HasInverse(x) == x.cents.kind = "finite" /\ x.residual # ZERO

\* C14 amended: for every ExtendedMonzo x with a finite cents offset and a
\* nonzero residual, x.neg() returns and x.add(x.neg()) returns the unison:
\* every vector component 0, residual 1, cents offset 0, totalCents() 0.
C14_AddNegIsUnisonWhenFinite ==
  /\ (xop = "neg" /\ HasInverse(xargs.a)) => xres.ok
  /\ (xop = "add" /\ HasInverse(xargs.a) /\ IsNegOf(xargs.b, xargs.a)) =>
       xres.ok /\ IsUnisonMonzo(xres.m)

\* 3/2 held as [-1> with residual 3 was negated and added to its negation
C14_Witness ==
  /\ xop = "add"
  /\ xargs.a = ExtendedMonzo_fromFraction(Fraction(3, 2), 1).m
  /\ IsNegOf(xargs.b, xargs.a)
  /\ xprev = xargs.b
  /\ IsUnisonMonzo(xa)

\* C15: for every positive rational r and every number of components n
\* that holds all prime factors of r, fromFraction(r, n).toFraction()
\* returns exactly r.
C15_FromFractionRoundTrip ==
  (/\ xop = "toFraction"
   /\ xmade.op = "fromFraction"
   /\ FLess(ZERO, xmade.f)
   /\ primeLimitComponents(xmade.f) <= xmade.n)
  => (xres.ok /\ xres.f = xmade.f)

\* 9/4 went through fromFraction(9/4, 2) and toFraction()
C15_Witness ==
  /\ xop = "toFraction"
  /\ xmade = [op |-> "fromFraction", f |-> Fraction(9, 4), n |-> 2, e |-> ONE]
  /\ xargs.a = xa
  /\ xa.vector = <<Fraction(-2, 1), Fraction(2, 1)>>
  /\ xres.f = Fraction(9, 4)

\* toEqualTemperament() was called on what fromEqualTemperament built
EqualTemperamentRoundTrip ==
  xop = "toEqualTemperament" /\ xmade.op = "fromEqualTemperament"

\* C16 as stated: for all integers k and n > 0 and every rational equave,
\* fromEqualTemperament(k/n, equave).toEqualTemperament() returns k/n in
\* lowest terms and the equave that was passed in.
C16_EqualTemperamentRoundTrip ==
  EqualTemperamentRoundTrip =>
    (xres.ok /\ xres.f = xmade.f /\ xres.e = xmade.e)

\* gcd of the prime exponents of a positive fraction: 0 for 1, 1 for a
\* fraction that is no perfect power, m for b^m
ExponentGcd(f) ==
  numeratorLoop(toMonzoAndResidual(f, primeLimitComponents(f)).vector, 1,
                primeLimitComponents(f))

\* C16 amended: for all integers k and n > 0 and every positive rational
\* equave, fromEqualTemperament(k/n, equave).toEqualTemperament() returns
\* a normalised pair. For k # 0 and an equave greater than 1 that is no
\* perfect power it is k/n in lowest terms and the equave passed in. For
\* k = 0 or equave = 1 it is (0, 1). In every other case it is the pair
\* (f, e) with e greater than 1 and no perfect power that names the same
\* interval, e^f = equave^(k/n): an equave b^m gives (m * k/n, b), an
\* equave below 1 its inverse with the fraction negated.
C16_EqualTemperamentNormalised ==
  EqualTemperamentRoundTrip =>
    /\ xres.ok
    /\ (xmade.f # ZERO /\ FLess(ONE, xmade.e) /\ ExponentGcd(xmade.e) = 1)
         => (xres.f = xmade.f /\ xres.e = xmade.e)
    /\ (xmade.f = ZERO \/ xmade.e = ONE) => (xres.f = ZERO /\ xres.e = ONE)
    /\ (xmade.f # ZERO /\ xmade.e # ONE) =>
         /\ FLess(ONE, xres.e)
         /\ ExponentGcd(xres.e) = 1
         /\ ExtendedMonzo_fromEqualTemperament(xres.f, xres.e).m.vector
              = xa.vector

\* 2/3 of the equave 3/2 went through fromEqualTemperament and
\* toEqualTemperament
C16_Witness ==
  /\ EqualTemperamentRoundTrip
  /\ xmade.f = Fraction(2, 3)
  /\ xmade.e = Fraction(3, 2)
  /\ xargs.a = xa
  /\ xa.vector = <<Fraction(-2, 3), Fraction(2, 3)>>
  /\ xres.f = Fraction(2, 3)
  /\ xres.e = Fraction(3, 2)

\* the outcome of add(other.neg()) on this
AddOfNeg(this, other) ==
  With(ExtendedMonzo_neg(other),
       LAMBDA n: IF ~n.ok THEN n ELSE ExtendedMonzo_add(this, n.m))

\* C17: for all ExtendedMonzo a and b, whose vectors may differ in length,
\* the vector of a.add(b) and of a.sub(b) has the length of the longer
\* operand and is the component-wise sum (difference) with the shorter
\* vector extended by zeros; a.sub(b) equals a.add(b.neg()) in every
\* vector component, in the residual and in the cents offset (and throws
\* where a.add(b.neg()) throws).
C17_AddSubWiden ==
  /\ (xop \in {"add", "sub"} /\ xres.ok) =>
       /\ Len(xres.m.vector)
            = Max(Len(xargs.a.vector), Len(xargs.b.vector))
       /\ \A i \in 1..Len(xres.m.vector) :
            xres.m.vector[i]
              = IF xop = "add"
                THEN FAdd(VAt(xargs.a.vector, i), VAt(xargs.b.vector, i))
                ELSE FSub(VAt(xargs.a.vector, i), VAt(xargs.b.vector, i))
  /\ xop = "sub" =>
       /\ xres.ok = AddOfNeg(xargs.a, xargs.b).ok
       /\ xres.m = AddOfNeg(xargs.a, xargs.b).m

\* 2/1 on one component less 5/4 on three components: [3 0 -1>
C17_Witness ==
  /\ xop = "sub"
  /\ xargs.a = ExtendedMonzo_fromFraction(Fraction(2, 1), 1).m
  /\ xargs.b = ExtendedMonzo_fromFraction(Fraction(5, 4), 3).m
  /\ xres.ok
  /\ xres.m.vector = <<Fraction(3, 1), ZERO, NEGATIVE_ONE>>

\* a finite size greater than 0 cents
PositiveSize(m) ==
  /\ ExtendedMonzo_totalCents(m).kind = "finite"
  /\ FLess(ZERO, ExtendedMonzo_totalCents(m).q)

\* floor(this / other) for finite sizes
FloorDiv(this, other) ==
  FFloor(FDiv(ExtendedMonzo_totalCents(this).q,
              ExtendedMonzo_totalCents(other).q))

\* this minus k copies of other
LessCopies(this, other, k) ==
  ExtendedMonzo_sub(this, ExtendedMonzo_mul(other, Fraction(k, 1)).m)

\* Were numbers exact (XSpec keeps every finite number as a fraction),
\* mmod would be a floored modulo on monzos of every shape: a zero-size
\* operand, and no other, throws 'Modulo by unison', and a positive-size
\* one leaves a size from 0 up to but less than its own.
ExactMmodIsFlooredModulo ==
  xop \in {"mmod", "Interval.mmod"} =>
    /\ ExtendedMonzo_totalCents(xargs.b) = Finite(ZERO)
         => (~xres.ok /\ xres.err = "Modulo by unison")
    /\ ExtendedMonzo_totalCents(xargs.b) # Finite(ZERO)
         => xres.err # "Modulo by unison"
    /\ (PositiveSize(xargs.b)
          /\ ExtendedMonzo_totalCents(xargs.a).kind = "finite")
         => /\ xres.ok
            /\ xres.m = LessCopies(xargs.a, xargs.b,
                                    FloorDiv(xargs.a, xargs.b)).m
            /\ ExtendedMonzo_totalCents(xres.m).kind = "finite"
            /\ ~FLess(ExtendedMonzo_totalCents(xres.m).q, ZERO)
            /\ FLess(ExtendedMonzo_totalCents(xres.m).q,
                     ExtendedMonzo_totalCents(xargs.b).q)

\* the double floor(this / other)
DoubleFloorDiv(this, other) ==
  dblFloor(dblDiv(CentsMonzo_totalCents(this), CentsMonzo_totalCents(other)))

\* C18: mmod is a floored modulo, in ExtendedMonzo.mmod and in
\* Interval.mmod alike: by an operand whose total size is 0 cents it throws
\* 'Modulo by unison'; by an operand of positive size it returns this minus
\* floor(this / other) copies of the operand, and the size of that is at
\* least 0 and strictly less than the operand's size.
C18_MmodIsFlooredModulo ==
  dop \in {"mmod", "Interval.mmod"} =>
    /\ CentsMonzo_totalCents(dargs.b) = DZero
         => (~dres.ok /\ dres.err = "Modulo by unison")
    /\ dblLess(DZero, CentsMonzo_totalCents(dargs.b))
         => /\ dres.ok
            /\ dres.m = CentsMonzo_sub(dargs.a,
                           CentsMonzo_mul(dargs.b,
                                          DoubleFloorDiv(dargs.a, dargs.b)))
            /\ ~dblLess(CentsMonzo_totalCents(dres.m), DZero)
            /\ dblLess(CentsMonzo_totalCents(dres.m),
                       CentsMonzo_totalCents(dargs.b))

\* 1.7 cents modulo 0.1 cents: the quotient rounds up to 17, and 17 copies
\* of 0.1 exceed 1.7, so mmod returns -2^-52 cents
C18_NegativeRemainder ==
  /\ dop = "mmod"
  /\ dargs.a = CentsMonzo(Double(1, <<1, 11, 3, 3, 3, 3, 3, 3, 3, 3, 3, 3,
                                       3, 3>>, -52))
  /\ dargs.b = CentsMonzo(Double(1, <<1, 9, 9, 9, 9, 9, 9, 9, 9, 9, 9, 9,
                                       9, 10>>, -56))
  /\ DoubleFloorDiv(dargs.a, dargs.b) = Double(1, <<1, 1>>, 0)
  /\ dres.ok
  /\ dres.m.cents = Double(-1, <<1>>, -52)

NotPitch(q) == q.domain \in {"time", "scalar"}

\* C19: mul of two quantities that are each in the time or scalar domain
\* returns a quantity whose exponent is the sum of the operands' exponents,
\* in the time domain unless that sum is 0 and in the scalar domain when it
\* is; a pitch quantity times a time quantity, in either order, throws
\* the incompatible-domains error.
C19_MulAddsExponents ==
  qop = "mul" =>
    /\ (NotPitch(qargs[1]) /\ NotPitch(qargs[2]))
         => /\ qres.ok
            /\ qres.q.exponent = FAdd(qargs[1].exponent, qargs[2].exponent)
            /\ qres.q.domain = IF qres.q.exponent = ZERO THEN "scalar"
                                ELSE "time"
    /\ ({qargs[1].domain, qargs[2].domain} = {"pitch", "time"})
         => (~qres.ok /\ qres.err = "IncompatibleDomains")

\* the scalar 2 times 1 Hz is a frequency
C19_Witness ==
  /\ qop = "mul"
  /\ qargs[1] = Quantity(fromFraction(Fraction(2, 1)), "scalar", ZERO).q
  /\ qargs[2] = Quantity(fromFraction(ONE), "time", NEGATIVE_ONE).q
  /\ qres.ok
  /\ qres.q.domain = "time"
  /\ qres.q.exponent = NEGATIVE_ONE
  /\ qa = qres.q

\* pow throws for an exponent operand that is not a scalar and for a pitch
\* base, and returns only for a time or scalar base raised to a scalar
PowThrows ==
  /\ (qargs[2].domain # "scalar" \/ qargs[2].exponent # ZERO)
       => (~qres.ok /\ qres.err = "OnlyScalarPowers")
  /\ qargs[1].domain = "pitch" => ~qres.ok
  /\ (qargs[1].domain = "pitch" /\ qargs[2].domain = "scalar")
       => qres.err = "CannotExponentiatePitch"
  /\ qres.ok => (NotPitch(qargs[1]) /\ qargs[2].domain = "scalar")

\* the base's exponent multiplied by the power (a scalar base keeps 0)
PowExponent ==
  IF qargs[1].exponent = ZERO THEN ZERO
  ELSE FMul(qargs[1].exponent, toFraction(qargs[2].value))

\* C20 as stated: pow throws whenever the exponent operand is not a scalar
\* and whenever the base is in the pitch domain; when it returns, the
\* result keeps the base's domain, with the base's exponent multiplied by
\* the power.
C20_PowKeepsDomain ==
  qop = "pow" =>
    /\ PowThrows
    /\ qres.ok => /\ qres.q.domain = qargs[1].domain
                  /\ qres.q.exponent = PowExponent

\* C20, amended: the same, but the result is in the base's domain only
\* when the multiplied exponent is not 0; a time quantity raised to the
\* power 0 is a scalar.
C20_PowKeepsDomainUnlessZero ==
  qop = "pow" =>
    /\ PowThrows
    /\ qres.ok => /\ qres.q.exponent = PowExponent
                  /\ qres.q.domain = IF PowExponent = ZERO THEN "scalar"
                                      ELSE qargs[1].domain

\* 2 Hz squared: the time domain with exponent -2
C20_Witness ==
  /\ qop = "pow"
  /\ qargs[1] = Quantity(fromFraction(Fraction(2, 1)), "time",
                         NEGATIVE_ONE).q
  /\ qargs[2] = Quantity(fromFraction(Fraction(2, 1)), "scalar", ZERO).q
  /\ qres.ok
  /\ qres.q.domain = "time"
  /\ qres.q.exponent = Fraction(-2, 1)
  /\ qa = qres.q

\* C29: for all quantities a and b, a.mul(b) returns exactly when b.mul(a)
\* returns, and then the two results have the same domain and the same
\* exponent.
C29_MulCommutesInUnit ==
  qop = "mul" =>
    With(Quantity_mul(qargs[2], qargs[1]),
         LAMBDA swapped:
           /\ swapped.ok = qres.ok
           /\ qres.ok => /\ swapped.q.domain = qres.q.domain
                         /\ swapped.q.exponent = qres.q.exponent)

\* the scalar 2 times the fifth: the pitch is on the right
C29_Witness ==
  /\ qop = "mul"
  /\ qargs[1] = Quantity(fromFraction(Fraction(2, 1)), "scalar", ZERO).q
  /\ qargs[2].domain = "pitch"
  /\ qres.ok
  /\ qres.q.domain = "pitch"
  /\ Quantity_mul(qargs[2], qargs[1]).q = qres.q

RECURSIVE TwiceSizeLoop(_, _)
TwiceSizeLoop(vector, j) ==
  IF j = 0 THEN 0
  ELSE Twice(vector[j]) * PRIME_CENTS[j] + TwiceSizeLoop(vector, j - 1)

\* twice the size of a monzo whose components are whole or half numbers
TwiceSize(monzo) == TwiceSizeLoop(monzo.vector, Len(monzo.vector))

\* The entry of a comma cache for the prime of (0-based) index i is as the
\* generator builds it from the count of fifths its search answers
WellBuiltComma(which, c, i) ==
  /\ Len(c.vector) = i + 1
  /\ c.residual = ONE
  /\ ~c.irrational
  /\ c.vector[i + 1] = ONE
  /\ master(which, PRIME_CENTS[i + 1]).ok
  /\ c.vector[2] = FNeg(master(which, PRIME_CENTS[i + 1]).k)
  /\ \A j \in 3..i : c.vector[j] = ZERO
  /\ TwiceSize(c) >= -PRIME_CENTS[1]
  /\ TwiceSize(c) <= PRIME_CENTS[1]
  /\ which = "formal" => Abs(TwiceSize(c)) < 2 * RADIUS_OF_TOLERANCE

\* C25: every comma the generator produces for prime index i has exponent
\* 1 on prime i, exponent -k on prime 3 for the count of fifths k the
\* search returns for that prime, exponent 0 on every other prime above 2,
\* and an exponent on prime 2 that puts its size within [-600, +600] cents;
\* a formal comma is in addition smaller than RADIUS_OF_TOLERANCE.
C25_CommasAreWellBuilt ==
  /\ \A i \in 2..(Len(formalCommas) - 1) :
        WellBuiltComma("formal", formalCommas[i + 1], i)
  /\ \A i \in 2..(Len(neutralCommas) - 1) :
        WellBuiltComma("neutral", neutralCommas[i + 1], i)

\* the formal comma of 7 is 63/64 and the neutral comma of 11 has half
\* exponents
C25_Witness ==
  /\ Len(formalCommas) >= 4
  /\ formalCommas[4].vector
       = <<Fraction(-6, 1), Fraction(2, 1), ZERO, ONE>>
  /\ Len(neutralCommas) >= 5
  /\ neutralCommas[5].vector[2][2] = 2

\* ------------------------------------- claims about `$` and declarations
\* a map declaration was the last line evaluated and it completed
MapCompleted ==
  /\ Evaluated
  /\ LastAst.type = "MapDeclaration"
  /\ lastOutput.ok

\* C23 as stated: once a map declaration has completed the context holds
\* no binding for `$` (the key '') that it did not hold before the map
\* declaration started.
C23_DollarBindingIsTemporary ==
  MapCompleted => Get(ctxAfterEval, "") = Get(ctxBefore, "")

\* a completed map pass over at least one degree has left `$` bound
C23_LeftoverDollar ==
  /\ MapCompleted
  /\ numBefore >= 2
  /\ "" \notin DOMAIN ctxBefore
  /\ "" \in DOMAIN ctxAfterEval

\* The characters of the names that occur in the lines of this model
NameChars(name) ==
  CASE name = "foo" -> <<"f", "o", "o">>
    [] name = "1" -> <<"1">>
    [] name = "0" -> <<"0">>
    [] name = "" -> <<>>
    [] name = "#" -> <<"#">>
    [] name = "##" -> <<"#", "#">>
    [] name = "#root" -> <<"#", "r", "o", "o", "t">>

DigitChars == {"0", "1", "2", "3", "4", "5", "6", "7", "8", "9"}

\* the grammar's VariableID: one or more characters of the identifier
\* class, the first of them neither '#' nor a digit
VariableID(name) ==
  /\ Len(NameChars(name)) >= 1
  /\ NameChars(name)[1] \notin {"#"} \cup DigitChars
  /\ \A i \in 1..Len(NameChars(name)) :
       NameChars(name)[i] \in {"f", "o", "r", "t", "#"} \cup DigitChars

\* the keys of scale degrees and the keys parseLines and evaluateAST keep
\* for themselves
DegreeKey(name) ==
  /\ Len(NameChars(name)) >= 1
  /\ \A i \in 1..Len(NameChars(name)) : NameChars(name)[i] \in DigitChars

ReservedKey(name) == name \in {"#", "##", "#root", ""}

\* a variable declaration was the last line evaluated and it completed
DeclarationCompleted ==
  /\ Evaluated
  /\ LastAst.type = "VariableDeclaration"
  /\ lastOutput.ok

\* a declaration writes the declared name and nothing else
DeclarationWritesOnlyItsName ==
  DeclarationCompleted =>
    /\ DOMAIN ctxAfterEval = DOMAIN ctxBefore \cup {LastAst.name}
    /\ \A k \in DOMAIN ctxBefore \ {LastAst.name} :
         ctxAfterEval[k] = ctxBefore[k]

\* a name the dollar form accepts is neither a degree key nor reserved
DollarFormKeepsDegrees ==
  \A k \in 1..Len(LINES) :
    (LINES[k].type = "VariableDeclaration" /\ VariableID(LINES[k].name))
      => ~DegreeKey(LINES[k].name) /\ ~ReservedKey(LINES[k].name)

\* C30 as stated: evaluating a variable declaration, in the dollar or in
\* the quoted form, never adds or changes a scale-degree key or a reserved
\* key of the context.
C30_DeclarationKeepsDegreesAndReserved ==
  DeclarationCompleted =>
    \A k \in {"0", "1", "#", "##", "#root", ""} :
      Get(ctxAfterEval, k) = Get(ctxBefore, k)

\* the quoted declaration "1" = 3 has replaced scale degree 1
C30_DegreeOverwritten ==
  /\ DeclarationCompleted
  /\ LastAst.name = "1"
  /\ "1" \in DOMAIN ctxBefore
  /\ ctxAfterEval["1"] # ctxBefore["1"]

\* ------------------------------------------------ claims about the grammar
Atoms == {"2", "c"}

\* the node of an operand that stands alone
Atom(t) == IF t = "2" THEN Number(2, 1) ELSE Cent

Parsed == gparsed # NotParsed

\* a ^ b ^ c is a ^ (b ^ c)
PowerBindsRight ==
  \A a, b, c \in Atoms :
    (Parsed /\ gtokens = <<a, "^", b, "^", c>>)
      => /\ gparsed.ok
         /\ gparsed.ast =
              BinaryExpression("^", Atom(a),
                               BinaryExpression("^", Atom(b), Atom(c)))
         /\ gparsed.ast = parse(<<a, "^", "(", b, "^", c, ")">>).ast

\* a op b ^ c is a op (b ^ c) and a ^ b op c is (a ^ b) op c for the
\* multiplicative and the additive operators
PowerBindsTighterThanBinary ==
  \A a, b, c \in Atoms : \A op \in {"*", "+", "-"} :
    /\ (Parsed /\ gtokens = <<a, op, b, "^", c>>)
         => /\ gparsed.ok
            /\ gparsed.ast =
                 BinaryExpression(op, Atom(a),
                                  BinaryExpression("^", Atom(b), Atom(c)))
    /\ (Parsed /\ gtokens = <<a, "^", b, op, c>>)
         => /\ gparsed.ok
            /\ gparsed.ast =
                 BinaryExpression(op,
                                  BinaryExpression("^", Atom(a), Atom(b)),
                                  Atom(c))

\* -a ^ b is -(a ^ b)
PowerBindsTighterThanUnary ==
  \A a, b \in Atoms : \A op \in {"+", "-"} :
    (Parsed /\ gtokens = <<op, a, "^", b>>)
      => /\ gparsed.ok
         /\ gparsed.ast =
              UnaryExpression(op, BinaryExpression("^", Atom(a), Atom(b)))

\* C26 as stated: exponentiation binds to the right, and it binds tighter
\* than the unary operators and than the multiplicative and additive
\* operators.
C26_PowerPrecedence ==
  /\ PowerBindsRight
  /\ PowerBindsTighterThanBinary
  /\ PowerBindsTighterThanUnary

\* the line -2^2 has been parsed as (-2) ^ 2
C26_UnaryBindsTighter ==
  /\ gtokens = <<"-", "2", "^", "2">>
  /\ gparsed.ok
  /\ gparsed.ast =
       BinaryExpression("^", UnaryExpression("-", Number(2, 1)),
                        Number(2, 1))

\* ----------------------------------------------- claims about wartsToVal
WartsCalled == wargs # NoWarts

\* the subgroup of the call as parseSubgroup returns it
WSubgroup == parseSubgroup(wargs.subgroupString)

\* the letter names a basis element of the subgroup in use
LetterResolves(letter) ==
  /\ WSubgroup.ok
  /\ With(wartToBasis(letter, WSubgroup.nonPrimes, wargs.lenient),
          LAMBDA basis:
            /\ basis.ok
            /\ basis.defined
            /\ \E i \in 1..Len(WSubgroup.subgroup) :
                 WSubgroup.subgroup[i] = basis.f)

UnresolvedLetter ==
  \/ wargs.equave # "" /\ ~LetterResolves(wargs.equave)
  \/ \E w \in 1..Len(wargs.warts) : ~LetterResolves(wargs.warts[w])

\* C21 as stated: wartsToVal reports an error when a wart letter or the
\* equave letter does not resolve to a basis element of the subgroup in
\* use.
C21_UnresolvedLetterIsReported ==
  (WartsCalled /\ UnresolvedLetter) => ~wres.ok

\* 12p@5 has been answered with the patent val of 12@5
C21_IgnoredWart ==
  /\ WartsCalled
  /\ wargs.warts = <<"p">>
  /\ wargs.equave = ""
  /\ wargs.edo = 12
  /\ wargs.subgroupString = SubgroupString(FALSE, <<Fraction(5, 1)>>)
  /\ wres.ok
  /\ wres.val = <<12, 19, 28>>

\* the wart letters of the call that name the basis element
Carried(basis) ==
  Cardinality({w \in 1..Len(wargs.warts) :
                 With(wartToBasis(wargs.warts[w], WSubgroup.nonPrimes,
                                  wargs.lenient),
                      LAMBDA named: named.defined /\ named.f = basis)})

\* v is an n-th closest integer to the Fraction q: fewer than n integers
\* are closer to q and at least n are as close
NthClosest(v, n, q) ==
  /\ Cardinality({k \in (v - n - 1)..(v + n + 1) :
                    Abs(k * q[2] - q[1]) < Abs(v * q[2] - q[1])}) < n
  /\ Cardinality({k \in (v - n - 1)..(v + n + 1) :
                    Abs(k * q[2] - q[1]) <= Abs(v * q[2] - q[1])}) >= n

\* C24: a basis element that carries m wart letters is mapped to the
\* (m+1)-th closest integer to its ideal step count, edo times its
\* logarithm over the logarithm of the first basis element; an element
\* without warts gets the nearest integer whatever the others carry.
C24_WartsPickNthClosest ==
  (WartsCalled /\ wres.ok) =>
    \A i \in 1..Len(wres.subgroup) :
      NthClosest(wres.val[i], Carried(wres.subgroup[i]) + 1,
                 scaledLog(wargs.edo, wres.subgroup[i], wres.subgroup[1]))

\* 17cc@5 has mapped 5 to 38, the third closest integer to 39.47, and
\* left 2 and 3 at 17 and 27
C24_Witness ==
  /\ WartsCalled
  /\ wargs.edo = 17
  /\ wargs.warts = <<"c", "c">>
  /\ wres.ok
  /\ wres.subgroup = <<Fraction(2, 1), Fraction(3, 1), Fraction(5, 1)>>
  /\ wres.val = <<17, 27, 38>>

\* ------------------------------------------------ claims about the Scale
IsUnison(interval) == ExtendedMonzo_totalCents(interval) = Finite(ZERO)

\* C27 as stated: fromRank2 throws whenever `down` is negative or not less
\* than `size`, so every scale it returns has the unison as its first
\* interval.
C27_DownBelowSizeOrThrows ==
  sop = "fromRank2" =>
    /\ (sargs.down < 0 \/ ~(sargs.down < sargs.size)) => ~sres.made.ok
    /\ sres.made.ok =>
         /\ Len(sres.made.scale.intervals) >= 1
         /\ IsUnison(sres.made.scale.intervals[1])

\* fromRank2 was handed down = size = 2 and has returned a scale of two
\* intervals without the unison
C27_ScaleWithoutUnison ==
  /\ sop = "fromRank2"
  /\ sargs.down = 2
  /\ sargs.size = 2
  /\ sres.made.ok
  /\ Len(sres.made.scale.intervals) = 2
  /\ \A k \in 1..2 : ~IsUnison(sres.made.scale.intervals[k])

\* with `down` from 0 to size - 1 a scale that is returned starts with the
\* unison
FromRank2StartsWithUnison ==
  (sop = "fromRank2" /\ sres.made.ok /\ sargs.down < sargs.size) =>
    /\ Len(sres.made.scale.intervals) >= 1
    /\ IsUnison(sres.made.scale.intervals[1])

\* C22: for every non-empty scale and all integers start <= end,
\* getFrequencyRange(start, end) has exactly end - start elements and its
\* element at position i - start equals getFrequency(i) for every i from
\* start to end - 1, negative indices and ranges over several equaves
\* included.
RangeTaken == sop = "getFrequencyRange"

RangeHasEndMinusStartElements ==
  RangeTaken => Len(sres.range) = sargs.end - sargs.start

RangeAgreesAt(i) ==
  sres.range[i - sargs.start + 1]
    = Scale_getFrequency(sargs.scale, i, splatform)

C22_RangeEqualsGetFrequency ==
  RangeTaken =>
    /\ Len(sres.range) = sargs.end - sargs.start
    /\ \A i \in sargs.start..(sargs.end - 1) : RangeAgreesAt(i)

\* the range of the scale of two octaves, whose values are powers of two,
\* agrees with getFrequency
ExactRangeEqualsGetFrequency ==
  (RangeTaken /\ sargs.scale = CentsScale(<<0, 1200>>, 2400, 440)) =>
    \A i \in sargs.start..(sargs.end - 1) : RangeAgreesAt(i)

\* whichever neighbour Math.pow answers, that range differs from
\* getFrequency at index 2
RangeDiffersOnEveryPlatform ==
  (/\ RangeTaken
   /\ sargs.scale = CentsScale(<<0>>, 600, 440)
   /\ sargs.start = 0
   /\ sargs.end = 3) => ~RangeAgreesAt(2)

\* getFrequencyRange(0, 3) of the unison in an equave of 600 cents over
\* 440 Hz ends in 440 * 2^0.5 * 2^0.5, which is not the 880 of
\* getFrequency(2)
C22_RangeDiffers ==
  /\ RangeTaken
  /\ sargs.scale = CentsScale(<<0>>, 600, 440)
  /\ sargs.start = 0
  /\ sargs.end = 3
  /\ Scale_getFrequency(sargs.scale, 2, splatform) = IntToDouble(880)
  /\ sres.range[3] # IntToDouble(880)

\* no interval before the k-th is strictly equal to it
IsFirstOccurrence(xs, k) ==
  \A j \in 1..(k - 1) : ~Interval_strictEquals(xs[k], xs[j])

\* the first occurrences among the first n of xs, in the order of xs
RECURSIVE FirstOccurrences(_, _)
FirstOccurrences(xs, n) ==
  IF n = 0 THEN <<>>
  ELSE FirstOccurrences(xs, n - 1)
         \o (IF IsFirstOccurrence(xs, n) THEN <<xs[n]>> ELSE <<>>)

NoStrictDuplicates(xs) ==
  \A a, b \in 1..Len(xs) : a < b => ~Interval_strictEquals(xs[a], xs[b])

\* removeDuplicatesInPlace has returned, to its caller or into merge
DedupReturned == upc \in {"deduplicated", "returned"}

MergeReturned == upc = "returned" /\ ucall.method = "merge"

\* C28: removeDuplicatesInPlace terminates for every scale and keeps
\* exactly the first occurrence of each group of strictly equal intervals,
\* in their original relative order: afterwards no two intervals of the
\* scale are strictly equal, and the interval at index 0 is never removed;
\* merge, when it returns, returns a scale without strictly equal
\* duplicates.
C28_RemoveDuplicatesKeepsFirstOccurrences ==
  /\ (upc = "looping") ~> DedupReturned
  /\ []((upc = "looping" /\ ucall.intervals # <<>>) =>
          /\ uintervals # <<>>
          /\ uintervals[1] = ucall.intervals[1])
  /\ []((DedupReturned /\ ~MergeReturned) =>
          /\ uintervals
               = FirstOccurrences(ucall.intervals, Len(ucall.intervals))
          /\ NoStrictDuplicates(uintervals)
          /\ ucall.intervals # <<>> =>
               uintervals[1] = ucall.intervals[1])
  /\ [](MergeReturned =>
          /\ NoStrictDuplicates(uintervals)
          /\ {uintervals[k] : k \in 1..Len(uintervals)}
               = {ucall.intervals[k] : k \in 1..Len(ucall.intervals)})

\* removeDuplicatesInPlace has returned the fifth, the octave and 1200
\* cents for the fifth, the octave, the fifth again and 1200 cents
C28_Witness ==
  /\ upc = "returned"
  /\ ucall.method = "removeDuplicatesInPlace"
  /\ ucall.intervals
       = << ExtendedMonzo_fromFraction(Fraction(3, 2), 2).m,
            ExtendedMonzo_fromFraction(Fraction(2, 1), 2).m,
            ExtendedMonzo_fromFraction(Fraction(3, 2), 2).m,
            ExtendedMonzo_fromCents(Finite(Fraction(12000000, 1)), 2).m >>
  /\ uintervals
       = << ExtendedMonzo_fromFraction(Fraction(3, 2), 2).m,
            ExtendedMonzo_fromFraction(Fraction(2, 1), 2).m,
            ExtendedMonzo_fromCents(Finite(Fraction(12000000, 1)), 2).m >>

\* merge has returned two intervals of one size for scales that hold the
\* octave and 1200 cents, and less than it was given to reduce
MergeRemovedDuplicates ==
  /\ MergeReturned
  /\ Len(uintervals) = 2
  /\ Len(ucall.intervals) = 4

====
